---- MODULE Spec2Model ----
(***************************************************************************)
(* Investor intake: the field and file validators, the file store, and     *)
(* the POST /api/investors handler with its database and upload directory. *)
(*                                                                         *)
(* Strings are sequences of one-character strings, so that trimming,       *)
(* digit stripping, upper-casing and length are computed as the code       *)
(* computes them.  A field that is missing from the form (formData.get     *)
(* returns null) is the one-element sequence Null, whose element is not a  *)
(* character.                                                              *)
(***************************************************************************)
EXTENDS Integers, Sequences, FiniteSets, TLC

VARIABLES
    call,       \* the validator call under test: [fn, arg, now, tz]
    result,     \* its returned error list, or NotCalled
    submission, \* the validateInvestorData call under test: [data, now, tz]
    validation, \* its ValidationResult, or NotValidated
    up,         \* one uploadFiles call: its arguments, loop position and outcome
    updisk,     \* stored names written to the upload directory by uploadFiles
    env,        \* the server's environment: UPLOAD_DIR, time zone, current date
    req,        \* the POST requests in flight: position, form, collected metadata, response
    dirExists,  \* whether the upload directory exists
    disk,       \* the files in the upload directory
    clock,      \* the millisecond clock behind Date.now()
    investors,  \* rows of table investors
    investor_files, \* rows of table investor_files
    get,        \* the response of the GET request under test, or NoGet
    seed,       \* the runs of the seed script: position and next sample
    tx          \* the withErrorHandling or executeTransaction call under test

fieldVars == <<call, result>>
dataVars == <<submission, validation>>
uploadVars == <<up, updisk>>
postVars == <<env, req, dirExists, disk, clock, investors, investor_files>>
toolVars == <<get, seed, tx>>

vars == <<call, result, submission, validation, up, updisk,
          env, req, dirExists, disk, clock, investors, investor_files, get, seed, tx>>

----------------------------------------------------------------------------
(* Characters and strings *)

Null == << "<null>" >>

DigitChars == {"0", "1", "2", "3", "4", "5", "6", "7", "8", "9"}

LowerLetters == <<"a", "b", "c", "d", "e", "f", "g", "h", "i", "j", "k", "l", "m",
                  "n", "o", "p", "q", "r", "s", "t", "u", "v", "w", "x", "y", "z">>

UpperLetters == <<"A", "B", "C", "D", "E", "F", "G", "H", "I", "J", "K", "L", "M",
                  "N", "O", "P", "Q", "R", "S", "T", "U", "V", "W", "X", "Y", "Z">>

WhitespaceChars == {" ", "\t", "\n"}

Range(s) == {s[i] : i \in 1..Len(s)}

Repeat(c, n) == [i \in 1..n |-> c]

\* String.prototype.trim: drop leading and trailing whitespace
trim(s) ==
    LET nonWs == {i \in 1..Len(s) : s[i] \notin WhitespaceChars}
    IN  IF nonWs = {} THEN <<>>
        ELSE LET first == CHOOSE i \in nonWs : \A j \in nonWs : i <= j
                 last  == CHOOSE i \in nonWs : \A j \in nonWs : j <= i
             IN  SubSeq(s, first, last)

toUpperCaseChar(c) ==
    IF \E i \in 1..26 : LowerLetters[i] = c
    THEN UpperLetters[CHOOSE i \in 1..26 : LowerLetters[i] = c]
    ELSE c

\* String.prototype.toUpperCase
toUpperCase(s) == [i \in 1..Len(s) |-> toUpperCaseChar(s[i])]

DigitValue(c) == CHOOSE n \in 0..9 : <<"0", "1", "2", "3", "4", "5", "6", "7", "8", "9">>[n + 1] = c

\* parseInt(s, 10) of a string of decimal digits
RECURSIVE parseIntDigits(_, _)
parseIntDigits(s, k) ==
    IF k = 0 THEN 0
    ELSE 10 * parseIntDigits(s, k - 1) + DigitValue(s[k])

parseInt(s) == parseIntDigits(s, Len(s))

\* s.split('-')[0]
SplitHyphenFirst(s) ==
    LET hy == {i \in 1..Len(s) : s[i] = "-"}
    IN  IF hy = {} THEN s
        ELSE SubSeq(s, 1, (CHOOSE i \in hy : \A j \in hy : i <= j) - 1)

----------------------------------------------------------------------------
(* validation-constants.ts *)

US_STATES_LIST ==
    { <<"A","L">>, <<"A","K">>, <<"A","Z">>, <<"A","R">>, <<"C","A">>, <<"C","O">>,
      <<"C","T">>, <<"D","E">>, <<"F","L">>, <<"G","A">>, <<"H","I">>, <<"I","D">>,
      <<"I","L">>, <<"I","N">>, <<"I","A">>, <<"K","S">>, <<"K","Y">>, <<"L","A">>,
      <<"M","E">>, <<"M","D">>, <<"M","A">>, <<"M","I">>, <<"M","N">>, <<"M","S">>,
      <<"M","O">>, <<"M","T">>, <<"N","E">>, <<"N","V">>, <<"N","H">>, <<"N","J">>,
      <<"N","M">>, <<"N","Y">>, <<"N","C">>, <<"N","D">>, <<"O","H">>, <<"O","K">>,
      <<"O","R">>, <<"P","A">>, <<"R","I">>, <<"S","C">>, <<"S","D">>, <<"T","N">>,
      <<"T","X">>, <<"U","T">>, <<"V","T">>, <<"V","A">>, <<"W","A">>, <<"W","V">>,
      <<"W","I">>, <<"W","Y">>, <<"D","C">> }

FIRST_NAME_MIN == 1
FIRST_NAME_MAX == 100
LAST_NAME_MIN == 1
LAST_NAME_MAX == 100
STREET_ADDRESS_MIN == 1
STREET_ADDRESS_MAX == 255
STATE_LENGTH == 2
PHONE_LENGTH == 10
AGE_MIN == 18
AGE_MAX == 120
ZIP_MIN_RANGE == 501
ZIP_MAX_RANGE == 99950
MAX_PATH_LENGTH == 500

\* ZIP_VALIDATION.REGEX = /^\d{5}(-\d{4})?$/
ZipRegexTest(s) ==
    \/ /\ Len(s) = 5
       /\ \A i \in 1..5 : s[i] \in DigitChars
    \/ /\ Len(s) = 10
       /\ \A i \in 1..5 : s[i] \in DigitChars
       /\ s[6] = "-"
       /\ \A i \in 7..10 : s[i] \in DigitChars

\* a lookup that forgets to upper-case
isValidStateCode_caseSensitive(state) == state \in US_STATES_LIST

isValidStateCode(state) == toUpperCase(state) \in US_STATES_LIST

\* a normalizer that also drops a leading country code 1
normalizePhoneNumber_dropCountryCode(phoneNumber) ==
    LET digits == SelectSeq(phoneNumber, LAMBDA c : c \in DigitChars)
    IN  IF Len(digits) = 11 /\ digits[1] = "1" THEN Tail(digits) ELSE digits

\* phoneNumber.replace(/\D/g, '')
normalizePhoneNumber(phoneNumber) == SelectSeq(phoneNumber, LAMBDA c : c \in DigitChars)

\* a range check with the lower bound excluded
isValidZipRange_exclusive(zipCode) ==
    LET zipNum == parseInt(SplitHyphenFirst(zipCode))
    IN  zipNum > ZIP_MIN_RANGE /\ zipNum <= ZIP_MAX_RANGE

isValidZipRange(zipCode) ==
    LET zipNum == parseInt(SplitHyphenFirst(zipCode))
    IN  zipNum >= ZIP_MIN_RANGE /\ zipNum <= ZIP_MAX_RANGE

----------------------------------------------------------------------------
(* Dates.  A date is [y, m, d]; an instant is seen through its calendar    *)
(* date in UTC and in the server's local time zone.                        *)

IsLeapYear(y) == (y % 4 = 0 /\ y % 100 # 0) \/ y % 400 = 0

DaysInMonth(y, m) ==
    IF m = 2 THEN (IF IsLeapYear(y) THEN 29 ELSE 28)
    ELSE IF m \in {4, 6, 9, 11} THEN 30 ELSE 31

IsCalendarDate(dt) == dt.m \in 1..12 /\ dt.d \in 1..DaysInMonth(dt.y, dt.m)

PrevDay(dt) ==
    IF dt.d > 1 THEN [y |-> dt.y, m |-> dt.m, d |-> dt.d - 1]
    ELSE IF dt.m > 1 THEN [y |-> dt.y, m |-> dt.m - 1, d |-> DaysInMonth(dt.y, dt.m - 1)]
    ELSE [y |-> dt.y - 1, m |-> 12, d |-> 31]

\* dt1 is strictly before dt2
DateBefore(dt1, dt2) ==
    \/ dt1.y < dt2.y
    \/ dt1.y = dt2.y /\ dt1.m < dt2.m
    \/ dt1.y = dt2.y /\ dt1.m = dt2.m /\ dt1.d < dt2.d

DigitChar(n) == <<"0", "1", "2", "3", "4", "5", "6", "7", "8", "9">>[n + 1]

\* the value of an <input type="date">: YYYY-MM-DD
FormatIsoDate(dt) ==
    << DigitChar(dt.y \div 1000), DigitChar((dt.y \div 100) % 10),
       DigitChar((dt.y \div 10) % 10), DigitChar(dt.y % 10), "-",
       DigitChar(dt.m \div 10), DigitChar(dt.m % 10), "-",
       DigitChar(dt.d \div 10), DigitChar(dt.d % 10) >>

IsIsoDateForm(s) ==
    /\ Len(s) = 10
    /\ \A i \in {1, 2, 3, 4, 6, 7, 9, 10} : s[i] \in DigitChars
    /\ s[5] = "-" /\ s[8] = "-"

InvalidDate == [valid |-> FALSE, utc |-> [y |-> 0, m |-> 0, d |-> 0]]

\* new Date(s) for a date-only ISO string: midnight UTC of that date;
\* anything that is not a calendar date in that form is an Invalid Date
NewDate(s) ==
    IF ~IsIsoDateForm(s) THEN InvalidDate
    ELSE LET dt == [y |-> parseInt(SubSeq(s, 1, 4)), m |-> parseInt(SubSeq(s, 6, 7)),
                    d |-> parseInt(SubSeq(s, 9, 10))]
         IN  IF IsCalendarDate(dt) THEN [valid |-> TRUE, utc |-> dt] ELSE InvalidDate

\* Time zones: the server's offset from UTC is west (behind UTC) or not.
TimeZones == {"UTC", "west"}

\* getFullYear/getMonth/getDate of an instant at midnight UTC: the local
\* calendar date, which west of UTC is still the previous day
LocalDateOfUtcMidnight(dt, tz) == IF tz = "west" THEN PrevDay(dt) ELSE dt

NaN == [nan |-> TRUE, value |-> 0]

Num(n) == [nan |-> FALSE, value |-> n]

\* calculateAge; now is the local calendar date of new Date()
calculateAge(dateOfBirth, now, tz) ==
    LET parsed == NewDate(dateOfBirth)
    IN  IF ~parsed.valid THEN NaN
        ELSE LET dob == LocalDateOfUtcMidnight(parsed.utc, tz)
                 age == now.y - dob.y
                 monthDiff == now.m - dob.m
                 dayDiff == now.d - dob.d
             IN  Num(IF monthDiff < 0 \/ (monthDiff = 0 /\ dayDiff < 0) THEN age - 1 ELSE age)

----------------------------------------------------------------------------
(* investor-validation.ts: each validator returns a list of errors *)

Err(field, message) == [field |-> field, message |-> message, filename |-> <<>>]

FileErr(message, filename) == [field |-> "files", message |-> message, filename |-> filename]

\* !s?.trim()  and  !s : null, undefined and the empty string are falsy
IsBlank(s) == s = Null \/ trim(s) = <<>>

IsFalsy(s) == s = Null \/ s = <<>>

validateFirstName(firstName) ==
    IF IsBlank(firstName) THEN << Err("firstName", "FIRST_NAME_REQUIRED") >>
    ELSE IF Len(trim(firstName)) < FIRST_NAME_MIN \/ Len(firstName) > FIRST_NAME_MAX
         THEN << Err("firstName", "FIRST_NAME_LENGTH") >>
         ELSE <<>>

validateLastName(lastName) ==
    IF IsBlank(lastName) THEN << Err("lastName", "LAST_NAME_REQUIRED") >>
    ELSE IF Len(trim(lastName)) < LAST_NAME_MIN \/ Len(lastName) > LAST_NAME_MAX
         THEN << Err("lastName", "LAST_NAME_LENGTH") >>
         ELSE <<>>

\* a length check on the trimmed value
validateStreetAddress_trimmedLength(streetAddress) ==
    IF IsBlank(streetAddress) THEN << Err("streetAddress", "STREET_ADDRESS_REQUIRED") >>
    ELSE IF Len(trim(streetAddress)) < STREET_ADDRESS_MIN
            \/ Len(trim(streetAddress)) > STREET_ADDRESS_MAX
         THEN << Err("streetAddress", "STREET_ADDRESS_LENGTH") >>
         ELSE <<>>

validateStreetAddress(streetAddress) ==
    IF IsBlank(streetAddress) THEN << Err("streetAddress", "STREET_ADDRESS_REQUIRED") >>
    ELSE IF Len(trim(streetAddress)) < STREET_ADDRESS_MIN
            \/ Len(streetAddress) > STREET_ADDRESS_MAX
         THEN << Err("streetAddress", "STREET_ADDRESS_LENGTH") >>
         ELSE <<>>

validateState(state) ==
    IF IsFalsy(state) THEN << Err("state", "STATE_REQUIRED") >>
    ELSE IF Len(state) # STATE_LENGTH THEN << Err("state", "STATE_LENGTH") >>
    ELSE IF ~isValidStateCode(state) THEN << Err("state", "STATE_INVALID") >>
    ELSE <<>>

validateZipCode(zipCode) ==
    IF IsFalsy(zipCode) THEN << Err("zipCode", "ZIP_REQUIRED") >>
    ELSE IF ~ZipRegexTest(zipCode) THEN << Err("zipCode", "ZIP_FORMAT") >>
    ELSE IF ~isValidZipRange(zipCode) THEN << Err("zipCode", "ZIP_RANGE") >>
    ELSE <<>>

\* NaN < 18 and NaN > 120 are both false
validateDateOfBirth(dateOfBirth, now, tz) ==
    IF IsFalsy(dateOfBirth) THEN << Err("dateOfBirth", "DATE_OF_BIRTH_REQUIRED") >>
    ELSE LET age == calculateAge(dateOfBirth, now, tz)
         IN  IF ~age.nan /\ (age.value < AGE_MIN \/ age.value > AGE_MAX)
             THEN << Err("dateOfBirth", "AGE_RANGE") >>
             ELSE <<>>

\* normalizePhoneNumber(null) throws a TypeError, which the validator does
\* not catch
Thrown == << [field |-> "<thrown>", message |-> "TypeError", filename |-> <<>>] >>

validatePhoneNumber(phoneNumber) ==
    IF phoneNumber = Null THEN Thrown
    ELSE LET normalized == normalizePhoneNumber(phoneNumber)
         IN  IF normalized = <<>> THEN << Err("phoneNumber", "PHONE_REQUIRED") >>
             ELSE IF Len(normalized) # PHONE_LENGTH
                  THEN << Err("phoneNumber", "PHONE_LENGTH") >>
                  ELSE <<>>

MAX_SIZE == 3145728
MAX_FILENAME_LENGTH == 255
MAX_MIME_TYPE_LENGTH == 100

MimePdf == <<"a", "p", "p", "l", "i", "c", "a", "t", "i", "o", "n", "/", "p", "d", "f">>
MimeJpeg == <<"i", "m", "a", "g", "e", "/", "j", "p", "e", "g">>
MimeJpg == <<"i", "m", "a", "g", "e", "/", "j", "p", "g">>
MimePng == <<"i", "m", "a", "g", "e", "/", "p", "n", "g">>
MimeGif == <<"i", "m", "a", "g", "e", "/", "g", "i", "f">>

ALLOWED_TYPES == {MimePdf, MimeJpeg, MimeJpg, MimePng}

\* the errors one file contributes, in the order the loop body pushes them
FileErrors(file) ==
    (IF file.size > MAX_SIZE THEN << FileErr("FILE_SIZE", file.name) >> ELSE <<>>)
    \o (IF file.type \notin ALLOWED_TYPES THEN << FileErr("FILE_TYPE", file.name) >> ELSE <<>>)
    \o (IF Len(file.name) > MAX_FILENAME_LENGTH
        THEN << FileErr("FILE_NAME_LENGTH", file.name) >> ELSE <<>>)
    \o (IF Len(file.type) > MAX_MIME_TYPE_LENGTH
        THEN << FileErr("FILE_MIME_TYPE", file.name) >> ELSE <<>>)

RECURSIVE FileErrorsFrom(_, _)
FileErrorsFrom(files, i) ==
    IF i > Len(files) THEN <<>>
    ELSE FileErrors(files[i]) \o FileErrorsFrom(files, i + 1)

\* a validator that looks at the first file only
validateFiles_firstFileOnly(files) ==
    IF Len(files) = 0 THEN << Err("files", "FILES_REQUIRED") >>
    ELSE FileErrors(files[1])

validateFiles(files) ==
    IF Len(files) = 0 THEN << Err("files", "FILES_REQUIRED") >>
    ELSE FileErrorsFrom(files, 1)

\* a result that hands back the names and the address trimmed
NormalizedData_trimmed(data) ==
    [firstName |-> trim(data.firstName),
     lastName |-> trim(data.lastName),
     dateOfBirth |-> data.dateOfBirth,
     phoneNumber |-> normalizePhoneNumber(data.phoneNumber),
     streetAddress |-> trim(data.streetAddress),
     state |-> toUpperCase(data.state),
     zipCode |-> data.zipCode,
     files |-> data.files]

\* the data of a valid result
NormalizedData(data) ==
    [firstName |-> data.firstName,
     lastName |-> data.lastName,
     dateOfBirth |-> data.dateOfBirth,
     phoneNumber |-> normalizePhoneNumber(data.phoneNumber),
     streetAddress |-> data.streetAddress,
     state |-> toUpperCase(data.state),
     zipCode |-> data.zipCode,
     files |-> data.files]

\* a validator that checks the phone number before the date of birth
validateInvestorData_phoneBeforeDateOfBirth(data, now, tz) ==
    LET errors == validateFirstName(data.firstName)
                  \o validateLastName(data.lastName)
                  \o validateStreetAddress(data.streetAddress)
                  \o validateState(data.state)
                  \o validateZipCode(data.zipCode)
                  \o validatePhoneNumber(data.phoneNumber)
                  \o validateDateOfBirth(data.dateOfBirth, now, tz)
                  \o validateFiles(data.files)
    IN  IF data.phoneNumber = Null
        THEN [threw |-> TRUE, isValid |-> FALSE, errors |-> <<>>, hasData |-> FALSE, data |-> data]
        ELSE IF Len(errors) > 0
        THEN [threw |-> FALSE, isValid |-> FALSE, errors |-> errors, hasData |-> FALSE,
              data |-> data]
        ELSE [threw |-> FALSE, isValid |-> TRUE, errors |-> <<>>, hasData |-> TRUE,
              data |-> NormalizedData(data)]

\* validateInvestorData: the validators run in a fixed order and their
\* errors are concatenated; a TypeError thrown by the phone validator
\* leaves the function before any result is built
validateInvestorData(data, now, tz) ==
    LET errors == validateFirstName(data.firstName)
                  \o validateLastName(data.lastName)
                  \o validateStreetAddress(data.streetAddress)
                  \o validateState(data.state)
                  \o validateZipCode(data.zipCode)
                  \o validateDateOfBirth(data.dateOfBirth, now, tz)
                  \o validatePhoneNumber(data.phoneNumber)
                  \o validateFiles(data.files)
    IN  IF data.phoneNumber = Null
        THEN [threw |-> TRUE, isValid |-> FALSE, errors |-> <<>>, hasData |-> FALSE, data |-> data]
        ELSE IF Len(errors) > 0
        THEN [threw |-> FALSE, isValid |-> FALSE, errors |-> errors, hasData |-> FALSE,
              data |-> data]
        ELSE [threw |-> FALSE, isValid |-> TRUE, errors |-> <<>>, hasData |-> TRUE,
              data |-> NormalizedData(data)]

----------------------------------------------------------------------------
(* Inputs of the validator calls *)

MaxPad == 2          \* surrounding whitespace of a name or address
MaxPunct == 1        \* punctuation characters inserted into a phone number

\* a value with lead blanks, a core of coreLen letters and trail pad characters
Padded(lead, coreLen, trail, pad) == Repeat(" ", lead) \o Repeat("a", coreLen) \o Repeat(pad, trail)

CoreLengths(max) == {0, 1, 2, max - 1, max, max + 1}

TextInputs(max) ==
    {Null, <<"a", " ", "b">>}
    \cup {Padded(lead, n, trail, pad) :
            lead \in 0..MaxPad, n \in CoreLengths(max), trail \in 0..MaxPad, pad \in {" ", "\t"}}

StateChars == Range(LowerLetters) \cup Range(UpperLetters) \cup {"1", " "}

StateInputs ==
    {Null, <<>>}
    \cup {<<a>> : a \in StateChars}
    \cup {<<a, b>> : a \in StateChars, b \in StateChars}
    \cup {<<a, b, c>> : a \in {"C", "c"}, b \in {"A", "a"}, c \in {"A", " "}}

ZipDigits == {"0", "1", "5", "9"}

ZipTails == {<<>>, <<"-", "1", "2", "3", "4">>, <<"-", "1", "2", "3">>, <<"-">>, <<"7">>,
             <<" ">>, <<"-", "1", "2", "3", "4", "5">>, <<"-", "1", "2", "3", "x">>}

ZipInputs ==
    {Null, <<>>, <<"1", "2", "3", "4">>, <<"a", "b", "c", "d", "e">>, <<"1", "2", "3", "4", "5">>}
    \cup {<<a, b, c, d, e>> \o t :
            a \in ZipDigits, b \in ZipDigits, c \in ZipDigits, d \in ZipDigits, e \in ZipDigits,
            t \in ZipTails}

PhoneSample == <<"1", "9", "5", "1", "5", "2", "6", "3", "8", "3", "4", "7">>

PhonePunct == {"-", " ", "(", "x"}

RECURSIVE InsertPunct(_, _)
\* the strings obtained from s by inserting up to n punctuation characters
InsertPunct(S, n) ==
    IF n = 0 THEN S
    ELSE InsertPunct(S \cup UNION {{SubSeq(s, 1, k) \o <<p>> \o SubSeq(s, k + 1, Len(s)) :
                                       k \in 0..Len(s), p \in PhonePunct} : s \in S}, n - 1)

PhoneExamples == {<<"1", "-", "9", "5", "1", "-", "5", "2", "6", "-", "3", "8", "3", "4">>, <<"(", "9", "5", "1", ")", " ", "5", "2", "6", "-", "3", "8", "3", "4">>, <<"9", "5", "1", "5", "2", "6", "3", "8", "3", "4">>}

PhoneInputs ==
    PhoneExamples
    \cup InsertPunct({SubSeq(PhoneSample, i, j) : i \in 1..12, j \in 0..11}, MaxPunct)

\* the server clock's local calendar date, and dates of birth around the
\* 18-year and 120-year boundaries
NowYear == 2024

BoundaryMonths == {1, 2, 3, 12}

BoundaryDays == {1, 2, 28, 29, 30, 31}

DatesOfYear(y) ==
    {dt \in [y : {y}, m : BoundaryMonths, d : BoundaryDays] : IsCalendarDate(dt)}

NowDates == DatesOfYear(NowYear)

DobDates ==
    UNION {DatesOfYear(NowYear - k) :
             k \in {AGE_MAX + 1, AGE_MAX, AGE_MAX - 1, AGE_MIN + 1, AGE_MIN, AGE_MIN - 1}}

GarbageDate == <<"n", "o", "t", "-", "a", "-", "d", "a", "t", "e">>

DobInputs == {Null, <<>>, GarbageDate} \cup {FormatIsoDate(dt) : dt \in DobDates}

DefaultNow == [y |-> NowYear, m |-> 3, d |-> 1]

Call(fn, arg) == [fn |-> fn, arg |-> arg, now |-> DefaultNow, tz |-> "UTC"]

\* the arguments a validator is called with
ArgsOf(fn) ==
    CASE fn = "validateFirstName" -> TextInputs(FIRST_NAME_MAX)
      [] fn = "validateLastName" -> TextInputs(LAST_NAME_MAX)
      [] fn = "validateStreetAddress" -> TextInputs(STREET_ADDRESS_MAX)
      [] fn = "validateState" -> StateInputs
      [] fn = "validateZipCode" -> ZipInputs
      [] fn = "validatePhoneNumber" -> PhoneInputs

TextValidators ==
    {"validateFirstName", "validateLastName", "validateStreetAddress", "validateState",
     "validateZipCode", "validatePhoneNumber"}

NoCall == Call("none", <<>>)

NotCalled == [called |-> FALSE, errors |-> <<>>]

Returned(errors) == [called |-> TRUE, errors |-> errors]

----------------------------------------------------------------------------
(* file-upload.ts *)

SafeFilenameChars == Range(LowerLetters) \cup Range(UpperLetters) \cup DigitChars \cup {".", "-"}

\* a replacement that lets the path separators through
sanitizeFilename_keepSeparators(filename) ==
    [i \in 1..Len(filename) |->
        IF filename[i] \in SafeFilenameChars \cup {"/", "\\"} THEN filename[i] ELSE "_"]

\* filename.replace(/[^a-zA-Z0-9.-]/g, '_')
sanitizeFilename(filename) ==
    [i \in 1..Len(filename) |-> IF filename[i] \in SafeFilenameChars THEN filename[i] ELSE "_"]

MaxClock == 1        \* milliseconds the clock can advance during a run

\* Date.now() printed in decimal: 13 digits, the last one moving with the clock
TimestampPrefix == <<"1", "7", "3", "0", "7", "0", "0", "0", "0", "0", "0", "0">>

DateNow(ms) == TimestampPrefix \o << DigitChar(ms) >>

\* Math.random().toString(36).substring(2, 8): at most 6 characters of [0-9a-z]
RandomSuffixes == {<<"k", "3", "x", "9", "a", "b">>, <<"i">>}

generateUniqueFilename(originalFilename, timestamp, randomSuffix) ==
    timestamp \o <<"-">> \o randomSuffix \o <<"-">> \o sanitizeFilename(originalFilename)

DefaultUploadDir == <<".", "/", "u", "p", "l", "o", "a", "d", "s">>

DEFAULT_MAX_PATH_LENGTH == 500

\* `${uploadDir}/${uniqueFilename}`
DbFilePath(uploadDir, uniqueFilename) == uploadDir \o <<"/">> \o uniqueFilename

FileUploadResult(file, dbFilePath) ==
    [filePath |-> dbFilePath, fileOriginalName |-> file.name,
     fileSize |-> file.size, mimeType |-> file.type]

NoError == [kind |-> "none", filename |-> <<>>]

UploadError(kind, filename) == [kind |-> kind, filename |-> filename]

\* what is in the upload directory: a stored path and whether its bytes were
\* all written
DiskFile(path, complete) == [path |-> path, complete |-> complete]

(* Inputs of uploadFiles *)

MaxBatch == 2        \* files in one batch

LongNameLength == 480

PdfFile == [name |-> <<"i", "d", ".", "p", "d", "f">>, size |-> 1024, type |-> MimePdf]
PngFile == [name |-> <<"m", "y", " ", "s", "c", "a", "n", "/", "1", ".", "p", "n", "g">>, size |-> 2048, type |-> MimePng]
LongNameFile == [name |-> Repeat("n", LongNameLength), size |-> 1024, type |-> MimePdf]

\* a name that climbs out of the directory, and one with control characters
TraversalFile == [name |-> <<".", ".", "/", ".", ".", "\\", "e", "t", "c">>, size |-> 1024, type |-> MimePdf]
ControlCharsFile == [name |-> <<"a", "\t", "b", "\n", ".", "p", "d", "f">>, size |-> 1024, type |-> MimePdf]

UploadFileInputs == {PdfFile, PngFile, LongNameFile, TraversalFile, ControlCharsFile}

Batches(F, n) == UNION {[1..k -> F] : k \in 0..n}

\* config.maxPathLength: 0 stands for "not given"
MaxPathLengthConfigs == {0, 40}

UploadCall(files, maxPathLengthConfig) ==
    [pc |-> "ensureUploadDirectory",
     files |-> files,
     uploadDir |-> DefaultUploadDir,
     maxPathLength |-> IF maxPathLengthConfig # 0 THEN maxPathLengthConfig
                       ELSE DEFAULT_MAX_PATH_LENGTH,
     i |-> 1,
     clock |-> 0,
     fileDataArray |-> <<>>,
     error |-> NoError]

UploadIdle == [pc |-> "idle", files |-> <<>>, uploadDir |-> DefaultUploadDir,
               maxPathLength |-> DEFAULT_MAX_PATH_LENGTH, i |-> 1, clock |-> 0,
               fileDataArray |-> <<>>, error |-> NoError]

(* Inputs of validateInvestorData: a valid submission with one field replaced *)

BaseData ==
    [firstName |-> <<"A", "n", "n">>, lastName |-> <<"L", "e", "e">>, dateOfBirth |-> <<"1", "9", "9", "0", "-", "0", "3", "-", "0", "1">>,
     phoneNumber |-> <<"9", "5", "1", "5", "2", "6", "3", "8", "3", "4">>, streetAddress |-> <<"1", " ", "M", "a", "i", "n", " ", "S", "t">>, state |-> <<"c", "a">>,
     zipCode |-> <<"1", "2", "3", "4", "5">>, files |-> << PdfFile >>]

BigFile == [name |-> <<"b", "i", "g", ".", "p", "d", "f">>, size |-> MAX_SIZE + 1, type |-> MimePdf]
GifFile == [name |-> <<"a", "n", "i", "m", ".", "g", "i", "f">>, size |-> 10, type |-> MimeGif]

BigGifFile == [name |-> <<"b", "i", "g", ".", "g", "i", "f">>, size |-> MAX_SIZE + 1, type |-> MimeGif]
Name256File == [name |-> Repeat("n", MAX_FILENAME_LENGTH + 1), size |-> 1024, type |-> MimePdf]
LongMimeFile == [name |-> <<"m", ".", "b", "i", "n">>, size |-> 1024,
                 type |-> Repeat("t", MAX_MIME_TYPE_LENGTH + 1)]
AtLimitsFile == [name |-> Repeat("m", MAX_FILENAME_LENGTH), size |-> MAX_SIZE, type |-> MimeJpeg]

MaxFiles == 3        \* files in one validated submission

FormFileInputs ==
    {PdfFile, PngFile, BigFile, GifFile, BigGifFile, Name256File, LongMimeFile, AtLimitsFile}

\* submissions in which any subset of the fields is invalid
SeveralInvalid ==
    [firstName : {BaseData.firstName, <<" ">>},
     lastName : {BaseData.lastName, Null},
     streetAddress : {BaseData.streetAddress, <<>>},
     state : {BaseData.state, <<"z", "z">>},
     zipCode : {BaseData.zipCode, <<"0", "0", "0", "0", "0">>},
     dateOfBirth : {BaseData.dateOfBirth, <<"2", "0", "2", "0", "-", "0", "1", "-", "0", "1">>},
     phoneNumber : {BaseData.phoneNumber, <<"1", "2", "3">>},
     files : {BaseData.files, <<>>, << BigFile, GifFile >>}]

\* BaseData with one of its fields replaced, or with several of them invalid
DataVariants(field) ==
    CASE field = "firstName" -> {[BaseData EXCEPT !.firstName = v] : v \in TextInputs(FIRST_NAME_MAX)}
      [] field = "lastName" -> {[BaseData EXCEPT !.lastName = v] : v \in TextInputs(LAST_NAME_MAX)}
      [] field = "streetAddress" ->
            {[BaseData EXCEPT !.streetAddress = v] : v \in TextInputs(STREET_ADDRESS_MAX)}
      [] field = "state" -> {[BaseData EXCEPT !.state = v] : v \in StateInputs}
      [] field = "zipCode" -> {[BaseData EXCEPT !.zipCode = v] : v \in ZipInputs}
      [] field = "phoneNumber" -> {[BaseData EXCEPT !.phoneNumber = v] : v \in PhoneInputs \cup {Null}}
      [] field = "files" -> {[BaseData EXCEPT !.files = v] : v \in Batches(FormFileInputs, MaxFiles)}
      [] field = "several" -> SeveralInvalid

DataFields ==
    {"firstName", "lastName", "streetAddress", "state", "zipCode", "phoneNumber", "files",
     "several"}

EmptyData ==
    [firstName |-> <<>>, lastName |-> <<>>, dateOfBirth |-> <<>>, phoneNumber |-> <<>>,
     streetAddress |-> <<>>, state |-> <<>>, zipCode |-> <<>>, files |-> <<>>]

NoSubmission == [data |-> EmptyData, now |-> DefaultNow, tz |-> "none"]

NoValidationResult ==
    [threw |-> FALSE, isValid |-> FALSE, errors |-> <<>>, hasData |-> FALSE, data |-> EmptyData]

\* calls counts the calls made with the submission, first is what the first
\* call returned and res what the latest one returned
NotValidated == [called |-> FALSE, calls |-> 0, first |-> NoValidationResult, res |-> NoValidationResult]

----------------------------------------------------------------------------
(* The database: tables investors and investor_files with their CHECK      *)
(* constraints and column widths                                           *)

\* d - INTERVAL 'n years': the same month and day n years earlier, the day
\* clamped to the length of the month
MinusYears(dt, n) ==
    [y |-> dt.y - n, m |-> dt.m,
     d |-> IF dt.d > DaysInMonth(dt.y - n, dt.m) THEN DaysInMonth(dt.y - n, dt.m) ELSE dt.d]

\* phone_number ~ '^[0-9]{10}$'
chk_phone_number_format(row) ==
    Len(row.phoneNumber) = 10 /\ \A i \in 1..10 : row.phoneNumber[i] \in DigitChars

\* zip_code ~ '^[0-9]{5}(-[0-9]{4})?$' AND CAST(SUBSTRING(zip_code, 1, 5) AS INTEGER)
\* BETWEEN 501 AND 99950
chk_zip_code_format(row) ==
    /\ ZipRegexTest(row.zipCode)
    /\ parseInt(SubSeq(row.zipCode, 1, 5)) >= 501
    /\ parseInt(SubSeq(row.zipCode, 1, 5)) <= 99950

\* date_of_birth <= CURRENT_DATE - INTERVAL '18 years' AND
\* date_of_birth >= CURRENT_DATE - INTERVAL '120 years'
chk_date_of_birth_age(row, currentDate) ==
    /\ ~DateBefore(MinusYears(currentDate, 18), row.dateOfBirth)
    /\ ~DateBefore(row.dateOfBirth, MinusYears(currentDate, 120))

\* TRIM(x) of SQL removes blanks only
SqlTrim(s) ==
    LET nonBlank == {i \in 1..Len(s) : s[i] # " "}
    IN  IF nonBlank = {} THEN <<>>
        ELSE SubSeq(s, CHOOSE i \in nonBlank : \A j \in nonBlank : i <= j,
                       CHOOSE i \in nonBlank : \A j \in nonBlank : j <= i)

chk_first_name_length(row) == Len(SqlTrim(row.firstName)) >= 1 /\ Len(row.firstName) <= 100

chk_last_name_length(row) == Len(SqlTrim(row.lastName)) >= 1 /\ Len(row.lastName) <= 100

chk_street_address_length(row) ==
    Len(SqlTrim(row.streetAddress)) >= 1 /\ Len(row.streetAddress) <= 255

InvestorChecks(row, currentDate) ==
    /\ chk_phone_number_format(row)
    /\ chk_zip_code_format(row)
    /\ chk_date_of_birth_age(row, currentDate)
    /\ chk_first_name_length(row)
    /\ chk_last_name_length(row)
    /\ chk_street_address_length(row)

\* CHAR(2) and VARCHAR(10)
InvestorColumnsFit(row) == Len(row.state) <= 2 /\ Len(row.zipCode) <= 10

\* VARCHAR(500), VARCHAR(255), VARCHAR(100)
FileColumnsFit(f) ==
    Len(f.filePath) <= 500 /\ Len(f.fileOriginalName) <= 255 /\ Len(f.mimeType) <= 100

----------------------------------------------------------------------------
(* POST /api/investors, one step per awaited operation *)

Requests == {"r1", "r2"}

LongUploadDirLength == 300

LongUploadDir == <<".", "/">> \o Repeat("u", LongUploadDirLength - 2)

Today == DefaultNow

Name255File == [name |-> Repeat("n", MAX_FILENAME_LENGTH), size |-> 1024, type |-> MimePdf]

\* the forms the clients submit
FormInputs ==
    { BaseData,
      [BaseData EXCEPT !.files = << PdfFile, PngFile >>],
      [BaseData EXCEPT !.files = << PdfFile, Name255File >>],
      [BaseData EXCEPT !.files = <<>>],
      [BaseData EXCEPT !.firstName = <<" ">>],
      [BaseData EXCEPT !.firstName = <<" ">>, !.files = << BigFile >>],
      [BaseData EXCEPT !.phoneNumber = Null],
      [BaseData EXCEPT !.firstName = <<>>, !.phoneNumber = Null],
      [BaseData EXCEPT !.dateOfBirth = GarbageDate],
      [BaseData EXCEPT !.dateOfBirth = FormatIsoDate(PrevDay(MinusYears(Today, AGE_MAX)))] }

\* the forms of the request that arrives while the first one is being handled
ConcurrentFormInputs ==
    { BaseData,
      [BaseData EXCEPT !.files = << PdfFile, PngFile >>],
      [BaseData EXCEPT !.files = <<>>] }

FormsOf(r) == IF r = "r1" THEN FormInputs ELSE ConcurrentFormInputs

\* the values the handler's try block can throw: the class of the error, its
\* code property if it has one, and its message
ThrownError(class, code, message) == [class |-> class, code |-> code, message |-> message]

\* what each failure of the handler throws
ThrownBy(failure) ==
    CASE failure = "TypeError" ->
            ThrownError("TypeError", "", "Cannot read properties of null (reading 'replace')")
      [] failure = "WRITE_FAILED" ->
            ThrownError("Error", "ENOSPC", "ENOSPC: no space left on device, write")
      [] failure = "DB_CONNECTION_ERROR" ->
            ThrownError("PrismaClientInitializationError", "P1001", "Can't reach database server")
      [] failure = "DB_VALIDATION_ERROR" ->
            ThrownError("PrismaClientValidationError", "", "Invalid value for argument `dateOfBirth`")
      [] failure = "DB_VALUE_TOO_LONG" ->
            ThrownError("PrismaClientKnownRequestError", "P2000",
                   "The provided value for the column is too long for the column's type")
      [] failure = "DB_CHECK_VIOLATION" ->
            ThrownError("PrismaClientUnknownRequestError", "",
                   "PostgresError { code: \"23514\", message: violates check constraint }")
      [] OTHER -> ThrownError("NotAnError", "", failure)

PrismaErrorClasses ==
    {"PrismaClientKnownRequestError", "PrismaClientValidationError",
     "PrismaClientInitializationError", "PrismaClientUnknownRequestError"}

\* error instanceof Error
InstanceOfError(error) == error.class \in PrismaErrorClasses \cup {"Error", "TypeError"}

DatabaseError(message, code) == [message |-> message, code |-> code]

\* parsePrismaError
parsePrismaError(error) ==
    IF error.class = "PrismaClientKnownRequestError"
    THEN CASE error.code = "P2002" ->
                 DatabaseError("A record with this field already exists.", error.code)
           [] error.code = "P2025" ->
                 DatabaseError("The requested record was not found.", error.code)
           [] error.code = "P2003" ->
                 DatabaseError("Cannot complete operation due to related records.", error.code)
           [] OTHER -> DatabaseError("A database error occurred.", error.code)
    ELSE IF error.class = "PrismaClientValidationError"
    THEN DatabaseError("Invalid data provided to the database.", "VALIDATION_ERROR")
    ELSE IF error.class = "PrismaClientInitializationError"
    THEN DatabaseError("Failed to connect to the database.", "CONNECTION_ERROR")
    ELSE IF InstanceOfError(error)
    THEN DatabaseError(error.message, "UNKNOWN_ERROR")
    ELSE DatabaseError("An unknown error occurred.", "UNKNOWN_ERROR")

\* dbError.message || 'Failed to create investor'
CatchMessage(error) ==
    LET dbError == parsePrismaError(error)
    IN  IF dbError.message = "" THEN "Failed to create investor" ELSE dbError.message

SuccessDataKeys == {"id", "firstName", "lastName", "createdAt", "filesCount"}

NoResponse ==
    [status |-> 0, error |-> "none", filename |-> <<>>, message |-> "", keys |-> {},
     dataKeys |-> {}, filesCount |-> 0, id |-> 0, firstName |-> <<>>, lastName |-> <<>>,
     createdAt |-> 0]

\* { error: ... } with status 400 or, from the catch, 500
ErrorResponse(status, error, filename) ==
    [status |-> status, error |-> error, filename |-> filename,
     message |-> IF status = 500 THEN CatchMessage(ThrownBy(error)) ELSE error,
     keys |-> {"error"}, dataKeys |-> {}, filesCount |-> 0, id |-> 0,
     firstName |-> <<>>, lastName |-> <<>>, createdAt |-> 0]

\* a reply that hands back the created record with the files it includes
Created_includesFiles(investor, files) ==
    [status |-> 201, error |-> "none", filename |-> <<>>, message |-> "",
     keys |-> {"success", "data"}, dataKeys |-> SuccessDataKeys \cup {"files"},
     filesCount |-> Cardinality(files), id |-> investor.id,
     firstName |-> investor.firstName, lastName |-> investor.lastName,
     createdAt |-> investor.createdAt]

\* { success: true, data: { id, firstName, lastName, createdAt, filesCount } }
\* with status 201, from the record that create returned
Created(investor, files) ==
    [status |-> 201, error |-> "none", filename |-> <<>>, message |-> "",
     keys |-> {"success", "data"}, dataKeys |-> SuccessDataKeys,
     filesCount |-> Cardinality(files), id |-> investor.id,
     firstName |-> investor.firstName, lastName |-> investor.lastName,
     createdAt |-> investor.createdAt]

\* a request: where its handler is, what it read and collected, what it
\* answered, and what it has done to the directory, the disk and the database
IdleRequest ==
    [pc |-> "idle", form |-> EmptyData, validated |-> EmptyData,
     validation |-> "none", i |-> 1, fileDataArray |-> <<>>, response |-> NoResponse,
     mkdirCalls |-> 0, mkdirFailed |-> FALSE, written |-> {}, writeFailedAt |-> 0,
     dbCalls |-> 0]

\* no GET request has been answered
NoGet == [status |-> 0, data |-> <<>>, count |-> 0, message |-> ""]

SeedRuns == {"s1", "s2"}

\* a run of the seed script that has not been started
SeedIdle == [pc |-> "idle", i |-> 1]

\* what a wrapper call gave back: it threw, or it returned an object with
\* data, with error, with both or with neither
NoWrapperResult ==
    [threw |-> FALSE, hasData |-> FALSE, data |-> "undefined", hasError |-> FALSE,
     error |-> [message |-> "", code |-> ""]]

\* no wrapper has been called
TxIdle ==
    [pc |-> "idle", fn |-> "none", callback |-> [kind |-> "none"], writes |-> 0,
     pending |-> {}, result |-> NoWrapperResult]

ToolsIdle == get = NoGet /\ seed = [s \in SeedRuns |-> SeedIdle] /\ tx = TxIdle

PostIdle ==
    /\ env = [uploadDir |-> DefaultUploadDir, tz |-> "UTC", today |-> Today]
    /\ req = [r \in Requests |-> IdleRequest]
    /\ dirExists = FALSE
    /\ disk = {}
    /\ clock = 0
    /\ investors = {}
    /\ investor_files = {}

\* await request.formData() and the reads of its fields; the requests are
\* named in their order of arrival
PostReceiveOf(r, forms) ==
    /\ req[r].pc = "idle"
    /\ r = "r2" => req["r1"].pc # "idle"
    /\ \E form \in forms : req' = [req EXCEPT ![r].pc = "validate", ![r].form = form]
    /\ UNCHANGED <<env, dirExists, disk, clock, investors, investor_files>>

PostReceive(r) == PostReceiveOf(r, FormsOf(r))

\* a handler that reports the first error but does not return
PostValidate_noReturn(r) ==
    /\ req[r].pc = "validate"
    /\ \E v \in {validateInvestorData(req[r].form, env.today, env.tz)} :
           req' = IF v.threw
                  THEN [req EXCEPT ![r].pc = "done", ![r].validation = "threw",
                                   ![r].response = ErrorResponse(500, "TypeError", <<>>)]
                  ELSE IF ~v.isValid
                  THEN [req EXCEPT ![r].pc = "mkdir", ![r].validation = "invalid",
                                   ![r].validated = req[r].form,
                                   ![r].response = ErrorResponse(400, v.errors[1].message,
                                                                 v.errors[1].filename)]
                  ELSE [req EXCEPT ![r].pc = "mkdir", ![r].validation = "valid",
                                   ![r].validated = v.data]
    /\ UNCHANGED <<env, dirExists, disk, clock, investors, investor_files>>

\* validateInvestorData and the reply with its first error; a TypeError thrown
\* by the validator lands in the handler's catch
PostValidate(r) ==
    /\ req[r].pc = "validate"
    /\ \E v \in {validateInvestorData(req[r].form, env.today, env.tz)} :
           req' = IF v.threw
                  THEN [req EXCEPT ![r].pc = "done", ![r].validation = "threw",
                                   ![r].response = ErrorResponse(500, "TypeError", <<>>)]
                  ELSE IF ~v.isValid
                  THEN [req EXCEPT ![r].pc = "done", ![r].validation = "invalid",
                                   ![r].response = ErrorResponse(400, v.errors[1].message,
                                                                 v.errors[1].filename)]
                  ELSE [req EXCEPT ![r].pc = "mkdir", ![r].validation = "valid",
                                   ![r].validated = v.data]
    /\ UNCHANGED <<env, dirExists, disk, clock, investors, investor_files>>

\* a handler that calls mkdir again after a failure
PostMkdir_retryOnFailure(r) ==
    /\ req[r].pc = "mkdir"
    /\ \E ok \in BOOLEAN :
          /\ dirExists' = (dirExists \/ ok)
          /\ ~ok => req[r].mkdirCalls < 2
          /\ req' = [req EXCEPT ![r].pc = IF ok THEN "store" ELSE "mkdir",
                                ![r].mkdirCalls = @ + 1, ![r].mkdirFailed = ~ok]
    /\ UNCHANGED <<env, disk, clock, investors, investor_files>>

\* await mkdir(uploadPath, {recursive: true}); a failure is logged and the
\* handler carries on
PostMkdir(r) ==
    /\ req[r].pc = "mkdir"
    /\ \E ok \in BOOLEAN :
          /\ dirExists' = (dirExists \/ ok)
          /\ req' = [req EXCEPT ![r].pc = "store", ![r].mkdirCalls = @ + 1,
                                ![r].mkdirFailed = ~ok]
    /\ UNCHANGED <<env, disk, clock, investors, investor_files>>

\* writeFile(filePath, buffer): creates or replaces the file
WriteFile(files, path, complete, content) ==
    {f \in files : f.path # path} \cup {[path |-> path, complete |-> complete, content |-> content]}

\* what a request has put on disk: the stored path, the index of the file in
\* the batch, and whether all its bytes were written
Written(path, index, complete) == [path |-> path, index |-> index, complete |-> complete]

\* a loop that logs a failed write and goes on with the next file
PostStoreFile_skipFailedFile(r) ==
    /\ req[r].pc = "store"
    /\ req[r].i <= Len(req[r].validated.files)
    /\ \E t \in clock..MaxClock, suffix \in RandomSuffixes, writeOk \in BOOLEAN, partial \in BOOLEAN :
          LET file == req[r].validated.files[req[r].i]
              fileName == generateUniqueFilename(file.name, DateNow(t), suffix)
              dbFilePath == DbFilePath(env.uploadDir, fileName)
              content == <<r, req[r].i>>
          IN  /\ clock' = t
              /\ IF Len(dbFilePath) > MAX_PATH_LENGTH
                 THEN /\ req' = [req EXCEPT ![r].pc = "done",
                                   ![r].response = ErrorResponse(400, "FILE_PATH_LENGTH", file.name)]
                      /\ UNCHANGED disk
                 ELSE IF writeOk /\ dirExists
                 THEN /\ disk' = WriteFile(disk, dbFilePath, TRUE, content)
                      /\ req' = [req EXCEPT ![r].i = @ + 1,
                                   ![r].written = @ \cup {Written(dbFilePath, req[r].i, TRUE)},
                                   ![r].fileDataArray = Append(@, FileUploadResult(file, dbFilePath))]
                 ELSE /\ disk' = IF partial /\ dirExists
                                 THEN WriteFile(disk, dbFilePath, FALSE, content)
                                 ELSE disk
                      /\ req' = [req EXCEPT ![r].i = @ + 1,
                                   ![r].writeFailedAt = req[r].i,
                                   ![r].written = IF partial /\ dirExists
                                                  THEN @ \cup {Written(dbFilePath, req[r].i, FALSE)}
                                                  ELSE @]
    /\ UNCHANGED <<env, dirExists, investors, investor_files>>

\* one iteration of the loop over validatedData.files
PostStoreFile(r) ==
    /\ req[r].pc = "store"
    /\ req[r].i <= Len(req[r].validated.files)
    /\ \E t \in clock..MaxClock, suffix \in RandomSuffixes, writeOk \in BOOLEAN, partial \in BOOLEAN :
          LET file == req[r].validated.files[req[r].i]
              fileName == generateUniqueFilename(file.name, DateNow(t), suffix)
              dbFilePath == DbFilePath(env.uploadDir, fileName)
              content == <<r, req[r].i>>
          IN  /\ clock' = t
              /\ IF Len(dbFilePath) > MAX_PATH_LENGTH
                 THEN /\ req' = [req EXCEPT ![r].pc = "done",
                                   ![r].response = ErrorResponse(400, "FILE_PATH_LENGTH", file.name)]
                      /\ UNCHANGED disk
                 ELSE IF writeOk /\ dirExists
                 THEN /\ disk' = WriteFile(disk, dbFilePath, TRUE, content)
                      /\ req' = [req EXCEPT ![r].i = @ + 1,
                                   ![r].written = @ \cup {Written(dbFilePath, req[r].i, TRUE)},
                                   ![r].fileDataArray = Append(@, FileUploadResult(file, dbFilePath))]
                 ELSE /\ disk' = IF partial /\ dirExists
                                 THEN WriteFile(disk, dbFilePath, FALSE, content)
                                 ELSE disk
                      /\ req' = [req EXCEPT ![r].pc = "done",
                                   ![r].writeFailedAt = req[r].i,
                                   ![r].written = IF partial /\ dirExists
                                                  THEN @ \cup {Written(dbFilePath, req[r].i, FALSE)}
                                                  ELSE @,
                                   ![r].response = ErrorResponse(500, "WRITE_FAILED", file.name)]
    /\ UNCHANGED <<env, dirExists, investors, investor_files>>

InvestorRow(id, data, createdAt) ==
    [id |-> id, firstName |-> data.firstName, lastName |-> data.lastName,
     dateOfBirth |-> NewDate(data.dateOfBirth).utc, phoneNumber |-> data.phoneNumber,
     streetAddress |-> data.streetAddress, state |-> data.state, zipCode |-> data.zipCode,
     createdAt |-> createdAt]

\* a create that leaves out the nested files
InvestorFileRows_none(id, fileDataArray) == {}

InvestorFileRows(id, fileDataArray) ==
    {[id |-> <<id, k>>, investorId |-> id, filePath |-> fileDataArray[k].filePath,
      fileOriginalName |-> fileDataArray[k].fileOriginalName,
      fileSize |-> fileDataArray[k].fileSize, mimeType |-> fileDataArray[k].mimeType] :
        k \in 1..Len(fileDataArray)}

\* the identifier of the newest row instead of a fresh one
NextInvestorId_sameAsNewest == IF investors = {} THEN 1 ELSE Cardinality(investors)

\* @default(uuid()): an identifier no row has yet
NextInvestorId == Cardinality(investors) + 1

\* why db.investor.create rejects, or "none"
CreateFailure(data, fileDataArray, currentDate) ==
    IF ~NewDate(data.dateOfBirth).valid THEN "DB_VALIDATION_ERROR"
    ELSE IF ~InvestorColumnsFit(InvestorRow(0, data, 0))
            \/ \E k \in 1..Len(fileDataArray) : ~FileColumnsFit(fileDataArray[k])
    THEN "DB_VALUE_TOO_LONG"
    ELSE IF ~InvestorChecks(InvestorRow(0, data, 0), currentDate) THEN "DB_CHECK_VIOLATION"
    ELSE "none"

\* a handler that deletes the files it wrote when the insert fails
PostCreate_deleteFilesOnFailure(r) ==
    /\ req[r].pc = "store"
    /\ req[r].i > Len(req[r].validated.files)
    /\ \E connected \in BOOLEAN :
          LET failure == IF ~connected THEN "DB_CONNECTION_ERROR"
                         ELSE CreateFailure(req[r].validated, req[r].fileDataArray, env.today)
              id == NextInvestorId
          IN  IF failure = "none"
              THEN /\ UNCHANGED disk
                   /\ investors' = investors \cup {InvestorRow(id, req[r].validated, clock)}
                   /\ investor_files' = investor_files
                                        \cup InvestorFileRows(id, req[r].fileDataArray)
                   /\ req' = [req EXCEPT ![r].pc = "done", ![r].dbCalls = @ + 1,
                                ![r].response = Created(InvestorRow(id, req[r].validated, clock),
                                                       InvestorFileRows(id, req[r].fileDataArray))]
              ELSE /\ UNCHANGED <<investors, investor_files>>
                   /\ disk' = {f \in disk : \A w \in req[r].written : f.path # w.path}
                   /\ req' = [req EXCEPT ![r].pc = "done", ![r].dbCalls = @ + 1,
                                ![r].response = ErrorResponse(500, failure, <<>>)]
    /\ UNCHANGED <<env, dirExists, clock>>

\* await db.investor.create with the nested create of the files: one
\* statement, the parent row and its child rows inserted together or not at
\* all; then the 201 reply, or the catch with its 500 reply
PostCreate(r) ==
    /\ req[r].pc = "store"
    /\ req[r].i > Len(req[r].validated.files)
    /\ \E connected \in BOOLEAN :
          LET failure == IF ~connected THEN "DB_CONNECTION_ERROR"
                         ELSE CreateFailure(req[r].validated, req[r].fileDataArray, env.today)
              id == NextInvestorId
          IN  IF failure = "none"
              THEN /\ investors' = investors \cup {InvestorRow(id, req[r].validated, clock)}
                   /\ investor_files' = investor_files
                                        \cup InvestorFileRows(id, req[r].fileDataArray)
                   /\ req' = [req EXCEPT ![r].pc = "done", ![r].dbCalls = @ + 1,
                                ![r].response = Created(InvestorRow(id, req[r].validated, clock),
                                                       InvestorFileRows(id, req[r].fileDataArray))]
              ELSE /\ UNCHANGED <<investors, investor_files>>
                   /\ req' = [req EXCEPT ![r].pc = "done", ![r].dbCalls = @ + 1,
                                ![r].response = ErrorResponse(500, failure, <<>>)]
    /\ UNCHANGED <<env, dirExists, disk, clock>>

Init ==
    /\ call = NoCall
    /\ result = NotCalled
    /\ submission = NoSubmission
    /\ validation = NotValidated
    /\ up = UploadIdle
    /\ updisk = {}
    /\ env \in [uploadDir : {DefaultUploadDir, LongUploadDir}, tz : {"UTC"}, today : {Today}]
    /\ req = [r \in Requests |-> IdleRequest]
    /\ dirExists = FALSE
    /\ disk = {}
    /\ clock = 0
    /\ investors = {}
    /\ investor_files = {}
    /\ ToolsIdle

Next ==
    \E r \in Requests :
        \/ PostReceive(r) /\ UNCHANGED <<fieldVars, dataVars, uploadVars, toolVars>>
        \/ PostValidate(r) /\ UNCHANGED <<fieldVars, dataVars, uploadVars, toolVars>>
        \/ PostMkdir(r) /\ UNCHANGED <<fieldVars, dataVars, uploadVars, toolVars>>
        \/ PostStoreFile(r) /\ UNCHANGED <<fieldVars, dataVars, uploadVars, toolVars>>
        \/ PostCreate(r) /\ UNCHANGED <<fieldVars, dataVars, uploadVars, toolVars>>

Spec == Init /\ [][Next]_vars

\* the steps of one request's handler after the request has arrived
Handler(r) ==
    /\ PostValidate(r) \/ PostMkdir(r) \/ PostStoreFile(r) \/ PostCreate(r)
    /\ UNCHANGED <<fieldVars, dataVars, uploadVars, toolVars>>

\* every await of the handler settles and the event loop then runs its
\* continuation; whether a request arrives at all is up to the client
\* the forms of the runs in which every request is followed to its response
LiveFormsOf(r) ==
    IF r = "r1"
    THEN { BaseData,
           [BaseData EXCEPT !.files = << PdfFile, Name255File >>],
           [BaseData EXCEPT !.firstName = <<" ">>],
           [BaseData EXCEPT !.phoneNumber = Null] }
    ELSE { BaseData }

NextLive ==
    \E r \in Requests :
        \/ PostReceiveOf(r, LiveFormsOf(r)) /\ UNCHANGED <<fieldVars, dataVars, uploadVars, toolVars>>
        \/ Handler(r)

SpecLive == Init /\ [][NextLive]_vars /\ \A r \in Requests : WF_vars(Handler(r))

----------------------------------------------------------------------------
(* uploadFiles, one step per awaited operation *)

\* ensureUploadDirectory: mkdir(uploadPath, {recursive: true}) succeeds
EnsureUploadDirectoryOk ==
    /\ up.pc = "ensureUploadDirectory"
    /\ up' = [up EXCEPT !.pc = "loop"]
    /\ UNCHANGED <<fieldVars, dataVars, updisk, postVars, toolVars>>

\* mkdir rejects: the error is logged and a new Error is thrown
EnsureUploadDirectoryFail ==
    /\ up.pc = "ensureUploadDirectory"
    /\ up' = [up EXCEPT !.pc = "thrown", !.error = UploadError("MKDIR_FAILED", <<>>)]
    /\ UNCHANGED <<fieldVars, dataVars, updisk, postVars, toolVars>>

\* one iteration of the loop over the batch: generate the name, check the
\* path length, stream the file to disk, collect its metadata
UploadLoopBody(file, timestampClock, randomSuffix, writeOk, partial) ==
    LET uniqueFilename == generateUniqueFilename(file.name, DateNow(timestampClock), randomSuffix)
        dbFilePath == DbFilePath(up.uploadDir, uniqueFilename)
    IN  IF Len(dbFilePath) > up.maxPathLength
        THEN /\ up' = [up EXCEPT !.pc = "thrown", !.clock = timestampClock,
                                 !.error = UploadError("PATH_TOO_LONG", file.name)]
             /\ UNCHANGED updisk
        ELSE IF writeOk
        THEN /\ up' = [up EXCEPT !.i = @ + 1, !.clock = timestampClock,
                                 !.fileDataArray = Append(@, FileUploadResult(file, dbFilePath))]
             /\ updisk' = (updisk \ {DiskFile(dbFilePath, FALSE)}) \cup {DiskFile(dbFilePath, TRUE)}
        ELSE /\ up' = [up EXCEPT !.pc = "thrown", !.clock = timestampClock,
                                 !.error = UploadError("WRITE_FAILED", file.name)]
             /\ updisk' = IF partial /\ DiskFile(dbFilePath, TRUE) \notin updisk
                          THEN updisk \cup {DiskFile(dbFilePath, FALSE)}
                          ELSE updisk

UploadNextFile ==
    /\ up.pc = "loop"
    /\ up.i <= Len(up.files)
    /\ \E t \in up.clock..MaxClock, suffix \in RandomSuffixes, writeOk \in BOOLEAN, partial \in BOOLEAN :
          UploadLoopBody(up.files[up.i], t, suffix, writeOk, partial)
    /\ UNCHANGED <<fieldVars, dataVars, postVars, toolVars>>

UploadReturn ==
    /\ up.pc = "loop"
    /\ up.i > Len(up.files)
    /\ up' = [up EXCEPT !.pc = "returned"]
    /\ UNCHANGED <<fieldVars, dataVars, updisk, postVars, toolVars>>


InitUpload ==
    /\ call = NoCall
    /\ result = NotCalled
    /\ submission = NoSubmission
    /\ validation = NotValidated
    /\ up \in {UploadCall(files, cfg) :
                 files \in Batches(UploadFileInputs, MaxBatch), cfg \in MaxPathLengthConfigs}
    /\ updisk = {}
    /\ PostIdle
    /\ ToolsIdle

NextUpload ==
    \/ EnsureUploadDirectoryOk
    \/ EnsureUploadDirectoryFail
    \/ UploadNextFile
    \/ UploadReturn

SpecUpload == InitUpload /\ [][NextUpload]_vars

----------------------------------------------------------------------------
(* The validators, each applied to one input *)

CallValidator(fn, errors) ==
    /\ call.fn = fn
    /\ ~result.called
    /\ result' = Returned(errors)
    /\ UNCHANGED <<call, dataVars, uploadVars, postVars, toolVars>>

CallValidateFirstName == CallValidator("validateFirstName", validateFirstName(call.arg))

CallValidateLastName == CallValidator("validateLastName", validateLastName(call.arg))

CallValidateStreetAddress ==
    CallValidator("validateStreetAddress", validateStreetAddress(call.arg))

CallValidateState == CallValidator("validateState", validateState(call.arg))

CallValidateZipCode == CallValidator("validateZipCode", validateZipCode(call.arg))

CallValidateDateOfBirth ==
    CallValidator("validateDateOfBirth", validateDateOfBirth(call.arg, call.now, call.tz))

CallValidatePhoneNumber == CallValidator("validatePhoneNumber", validatePhoneNumber(call.arg))

MaxValidations == 2

\* validateInvestorData(data), at the instant and in the time zone of the
\* submission; the caller may validate the same submission again
CallValidateInvestorData ==
    /\ submission.tz # "none"
    /\ validation.calls < MaxValidations
    /\ LET res == validateInvestorData(submission.data, submission.now, submission.tz)
       IN  validation' = [called |-> TRUE,
                          calls |-> validation.calls + 1,
                          first |-> IF validation.calls = 0 THEN res ELSE validation.first,
                          res |-> res]
    /\ UNCHANGED <<fieldVars, submission, uploadVars, postVars, toolVars>>

InitFields ==
    /\ \/ /\ \E fn \in TextValidators : \E a \in ArgsOf(fn) : call = Call(fn, a)
          /\ submission = NoSubmission
       \/ /\ \E a \in DobInputs, n \in NowDates, z \in TimeZones :
                call = [fn |-> "validateDateOfBirth", arg |-> a, now |-> n, tz |-> z]
          /\ submission = NoSubmission
       \/ /\ call = NoCall
          /\ \E field \in DataFields : \E d \in DataVariants(field) :
                submission = [data |-> d, now |-> DefaultNow, tz |-> "UTC"]
       \/ /\ call = NoCall
          /\ \E v \in DobInputs, n \in NowDates, z \in TimeZones :
                submission = [data |-> [BaseData EXCEPT !.dateOfBirth = v], now |-> n, tz |-> z]
    /\ result = NotCalled
    /\ validation = NotValidated
    /\ up = UploadIdle
    /\ updisk = {}
    /\ PostIdle
    /\ ToolsIdle

NextFields ==
    \/ CallValidateFirstName
    \/ CallValidateLastName
    \/ CallValidateStreetAddress
    \/ CallValidateState
    \/ CallValidateZipCode
    \/ CallValidateDateOfBirth
    \/ CallValidatePhoneNumber
    \/ CallValidateInvestorData

SpecFields == InitFields /\ [][NextFields]_vars

----------------------------------------------------------------------------
(* Properties of the validators *)

HasError(errors, message) == \E i \in 1..Len(errors) : errors[i].message = message

OnlyError(errors, field, message) ==
    /\ Len(errors) = 1
    /\ errors[1].field = field
    /\ errors[1].message = message

DigitPositions(s) == {i \in 1..Len(s) : s[i] \in DigitChars}

\* the k-th smallest element of a set of positions
KthPosition(P, k) == CHOOSE i \in P : Cardinality({j \in P : j <= i}) = k

TenDigits == <<"9", "5", "1", "5", "2", "6", "3", "8", "3", "4">>

PhoneCalled == call.fn = "validatePhoneNumber" /\ result.called /\ call.arg # Null

\* C5: the three sample phone numbers "1-951-526-3834", "(951) 526-3834" and
\* "9515263834" all normalize to "9515263834" and are accepted by the phone
\* validator.
C5_SamplePhonesNormalizeAlike ==
    (PhoneCalled /\ call.arg \in PhoneExamples) =>
        /\ normalizePhoneNumber(call.arg) = TenDigits
        /\ result.errors = <<>>

IsZipFormat(s) ==
    /\ s # Null
    /\ Len(s) \in {5, 10}
    /\ \A i \in 1..Len(s) : IF i = 6 THEN s[i] = "-" ELSE s[i] \in DigitChars

LeadingFiveValue(s) ==
    10000 * DigitValue(s[1]) + 1000 * DigitValue(s[2]) + 100 * DigitValue(s[3])
    + 10 * DigitValue(s[4]) + DigitValue(s[5])

ZipCalled == call.fn = "validateZipCode" /\ result.called

ZipFormatCases ==
    (ZipCalled /\ IsZipFormat(call.arg)) =>
        /\ result.errors = <<>> <=> LeadingFiveValue(call.arg) \in 501..99950
        /\ result.errors # <<>> => OnlyError(result.errors, "zipCode", "ZIP_RANGE")
        /\ call.arg \in {<<"0", "0", "5", "0", "0">>, <<"9", "9", "9", "5", "1">>} => OnlyError(result.errors, "zipCode", "ZIP_RANGE")
        /\ call.arg \in {<<"0", "0", "5", "0", "1">>, <<"9", "9", "9", "5", "0">>} => result.errors = <<>>

\* C7 as stated: for a ZIP in the format, accepted iff its leading 5 digits are
\* in [501, 99950]; every input that does not match the format gets ZIP_FORMAT
\* and never ZIP_RANGE.
C7_ZipAsStated ==
    /\ ZipFormatCases
    /\ (ZipCalled /\ ~IsZipFormat(call.arg)) => OnlyError(result.errors, "zipCode", "ZIP_FORMAT")

\* C7 amended: as above, but only a non-empty input that does not match the
\* format gets ZIP_FORMAT; an empty or missing ZIP gets ZIP_REQUIRED.
C7_ZipRangeIffFormatted ==
    /\ ZipFormatCases
    /\ (ZipCalled /\ ~IsZipFormat(call.arg)) =>
          IF call.arg \in {Null, <<>>}
          THEN OnlyError(result.errors, "zipCode", "ZIP_REQUIRED")
          ELSE OnlyError(result.errors, "zipCode", "ZIP_FORMAT")

C7_Witness ==
    /\ ZipCalled
    /\ call.arg = <<"0", "0", "5", "0", "0">>
    /\ OnlyError(result.errors, "zipCode", "ZIP_RANGE")

\* whole years from dob to now, counted by anniversaries reached
AnniversaryAge(dob, now) ==
    LET reached == {k \in 0..200 : ~DateBefore(now, [y |-> dob.y + k, m |-> dob.m, d |-> dob.d])}
    IN  IF reached = {} THEN -1 ELSE CHOOSE k \in reached : \A j \in reached : j <= k

DobCalled == call.fn = "validateDateOfBirth" /\ result.called /\ NewDate(call.arg).valid

\* C8: the computed age is the number of whole years from the date of birth to
\* the current date; exactly 18 years before now is accepted, one day short of
\* 18 years is rejected, and AGE_RANGE is reported iff the age is below 18 or
\* above 120.
C8_AgeAnniversaryCorrect ==
    DobCalled =>
        LET dob == NewDate(call.arg).utc
            age == AnniversaryAge(dob, call.now)
        IN  /\ calculateAge(call.arg, call.now, call.tz) = Num(age)
            /\ HasError(result.errors, "AGE_RANGE") <=> (age < 18 \/ age > 120)

SameLetter(a, b) == a = b \/ \E i \in 1..26 : {a, b} = {LowerLetters[i], UpperLetters[i]}

InTableIgnoringCase(s) ==
    \E code \in US_STATES_LIST : \A i \in 1..2 : SameLetter(s[i], code[i])

StateCalled == call.fn = "validateState" /\ result.called

\* C9: the state table has 51 codes; an empty state gets STATE_REQUIRED, a
\* non-empty state of length other than 2 gets STATE_LENGTH only, a 2-character
\* state gets STATE_INVALID iff it is not in the table ignoring case; "ca" and
\* "CA" are accepted, "ZZ" and "C" are rejected.
C9_StateLengthBeforeTable ==
    /\ Cardinality(US_STATES_LIST) = 51
    /\ StateCalled =>
          IF call.arg \in {Null, <<>>} THEN OnlyError(result.errors, "state", "STATE_REQUIRED")
          ELSE IF Len(call.arg) # 2 THEN OnlyError(result.errors, "state", "STATE_LENGTH")
          ELSE /\ HasError(result.errors, "STATE_INVALID") <=> ~InTableIgnoringCase(call.arg)
               /\ result.errors = <<>> <=> InTableIgnoringCase(call.arg)
    /\ (StateCalled /\ call.arg \in {<<"c", "a">>, <<"C", "A">>}) => result.errors = <<>>
    /\ (StateCalled /\ call.arg = <<"Z", "Z">>) => OnlyError(result.errors, "state", "STATE_INVALID")
    /\ (StateCalled /\ call.arg = <<"C">>) => OnlyError(result.errors, "state", "STATE_LENGTH")

C9_Witness == StateCalled /\ call.arg = <<"c", "a">> /\ result.errors = <<>>

AllWhitespace(s) == \A i \in 1..Len(s) : s[i] \in WhitespaceChars

TextCase(fn, field, required, length, ceiling) ==
    (call.fn = fn /\ result.called) =>
        LET v == call.arg
            blank == v = Null \/ AllWhitespace(v)
        IN  /\ HasError(result.errors, required) <=> blank
            /\ HasError(result.errors, length) <=> (~blank /\ Len(v) > ceiling)
            /\ (~blank /\ Len(v) <= ceiling) => result.errors = <<>>
            /\ Len(result.errors) <= 1
            /\ \A i \in 1..Len(result.errors) : result.errors[i].field = field

\* C10: for first name and last name (ceiling 100) and street address (ceiling
\* 255), REQUIRED is reported iff the value is empty or all whitespace, LENGTH
\* iff it is not blank and its untrimmed length exceeds the ceiling, and nothing
\* otherwise.
C10_TextRequiredAndLength ==
    /\ TextCase("validateFirstName", "firstName", "FIRST_NAME_REQUIRED", "FIRST_NAME_LENGTH", 100)
    /\ TextCase("validateLastName", "lastName", "LAST_NAME_REQUIRED", "LAST_NAME_LENGTH", 100)
    /\ TextCase("validateStreetAddress", "streetAddress", "STREET_ADDRESS_REQUIRED",
                "STREET_ADDRESS_LENGTH", 255)

\* 255 letters and one trailing blank: over the ceiling only by its padding
C10_Witness ==
    /\ call.fn = "validateStreetAddress" /\ result.called
    /\ Len(call.arg) = 256 /\ Len(trim(call.arg)) = 255
    /\ OnlyError(result.errors, "streetAddress", "STREET_ADDRESS_LENGTH")

----------------------------------------------------------------------------
(* Properties of the file store *)

\* C1: when uploadFiles fails with the path-too-long error, the error names the
\* offending file and no file of the batch has been written to disk, the files
\* that precede the offending one included.
C1_PathGuardAllOrNothing ==
    (up.pc = "thrown" /\ up.error.kind = "PATH_TOO_LONG") =>
        /\ up.error.filename = up.files[up.i].name
        /\ updisk = {}

----------------------------------------------------------------------------
(* Properties of POST /api/investors *)

FilesOf(id) == {f \in investor_files : f.investorId = id}

\* C2: in every database state every investors row has at least one
\* investor_files row and exactly as many as its request submitted files, and
\* every investor_files row has its parent.
C2_ParentAndChildrenTogether ==
    /\ \A row \in investors :
          /\ Cardinality(FilesOf(row.id)) >= 1
          /\ \E r \in Requests :
                /\ req[r].response.status = 201
                /\ req[r].response.id = row.id
                /\ Cardinality(FilesOf(row.id)) = Len(req[r].form.files)
    /\ \A f \in investor_files : \E row \in investors : row.id = f.investorId

\* one request committed an investor with two files, the other failed at the
\* database
C2_Witness ==
    \E r1 \in Requests, r2 \in Requests :
        /\ req[r1].response.status = 201
        /\ Cardinality(FilesOf(req[r1].response.id)) = 2
        /\ req[r2].response.status = 500
        /\ req[r2].dbCalls = 1

C4_ValidatedSatisfiesChecks ==
    \A r \in Requests :
        (req[r].validation = "valid" /\ NewDate(req[r].validated.dateOfBirth).valid) =>
            /\ InvestorChecks(InvestorRow(0, req[r].validated, 0), env.today)
            /\ req[r].response.error # "DB_CHECK_VIOLATION"

----------------------------------------------------------------------------
(* Properties of validateInvestorData as a whole *)

FieldOrder ==
    <<"firstName", "lastName", "streetAddress", "state", "zipCode", "dateOfBirth", "phoneNumber",
      "files">>

FieldRank(field) == CHOOSE k \in 1..Len(FieldOrder) : FieldOrder[k] = field

\* the errors of a list that are about one field, in the order of the list
ErrorsAbout(errors, field) ==
    LET About(e) == e.field = field IN SelectSeq(errors, About)

\* what the validator of one field returns for it when called on its own
ErrorsOfFieldAlone(field, data, now, tz) ==
    CASE field = "firstName" -> validateFirstName(data.firstName)
      [] field = "lastName" -> validateLastName(data.lastName)
      [] field = "streetAddress" -> validateStreetAddress(data.streetAddress)
      [] field = "state" -> validateState(data.state)
      [] field = "zipCode" -> validateZipCode(data.zipCode)
      [] field = "dateOfBirth" -> validateDateOfBirth(data.dateOfBirth, now, tz)
      [] field = "phoneNumber" -> validatePhoneNumber(data.phoneNumber)
      [] field = "files" -> validateFiles(data.files)

FieldsWithErrors(errors) == {errors[i].field : i \in 1..Len(errors)}

FileErrorKinds == <<"FILE_SIZE", "FILE_TYPE", "FILE_NAME_LENGTH", "FILE_MIME_TYPE">>

\* when a file, looked at on its own, earns an error of a kind
FileEarns(kind, file) ==
    CASE kind = "FILE_SIZE" -> file.size > MAX_SIZE
      [] kind = "FILE_TYPE" -> file.type \notin ALLOWED_TYPES
      [] kind = "FILE_NAME_LENGTH" -> Len(file.name) > MAX_FILENAME_LENGTH
      [] kind = "FILE_MIME_TYPE" -> Len(file.type) > MAX_MIME_TYPE_LENGTH

ErrorsEarnedBy(file) ==
    LET Earned(kind) == FileEarns(kind, file)
        kinds == SelectSeq(FileErrorKinds, Earned)
    IN  [k \in 1..Len(kinds) |-> FileErr(kinds[k], file.name)]

RECURSIVE ErrorsEarnedByBatch(_)
ErrorsEarnedByBatch(files) ==
    IF files = <<>> THEN <<>>
    ELSE ErrorsEarnedBy(Head(files)) \o ErrorsEarnedByBatch(Tail(files))

\* C13: for a non-empty batch the file errors are the concatenation, in batch
\* order, of what each file earns on its own (FILE_SIZE, FILE_TYPE,
\* FILE_NAME_LENGTH, FILE_MIME_TYPE, each naming the file); an empty batch
\* gives the single error FILES_REQUIRED; there are 4 allowed types.
C13_FileErrorsPerFile ==
    /\ Cardinality(ALLOWED_TYPES) = 4
    /\ (validation.called /\ ~validation.res.threw) =>
          LET files == submission.data.files
              errors == ErrorsAbout(validation.res.errors, "files")
          IN  IF files = <<>>
              THEN errors = << Err("files", "FILES_REQUIRED") >>
              ELSE errors = ErrorsEarnedByBatch(files)

\* a batch of three whose second file alone is oversize: one FILE_SIZE error
\* naming that file
C13_Witness ==
    /\ validation.called
    /\ Len(submission.data.files) = 3
    /\ submission.data.files[1] = AtLimitsFile
    /\ submission.data.files[2] = BigFile
    /\ submission.data.files[3] = PngFile
    /\ validation.res.errors = << FileErr("FILE_SIZE", BigFile.name) >>

----------------------------------------------------------------------------
(* Properties of the POST handler *)

\* the errors the validators find in a form, in the validator's order; the
\* phone validator returns nothing for a missing phone number, it throws
SubmissionErrors(data, now, tz) ==
    ErrorsOfFieldAlone("firstName", data, now, tz)
    \o ErrorsOfFieldAlone("lastName", data, now, tz)
    \o ErrorsOfFieldAlone("streetAddress", data, now, tz)
    \o ErrorsOfFieldAlone("state", data, now, tz)
    \o ErrorsOfFieldAlone("zipCode", data, now, tz)
    \o ErrorsOfFieldAlone("dateOfBirth", data, now, tz)
    \o (IF data.phoneNumber = Null THEN <<>> ELSE ErrorsOfFieldAlone("phoneNumber", data, now, tz))
    \o ErrorsOfFieldAlone("files", data, now, tz)

\* C12: a POST whose submission has one or more validation errors is answered
\* 400 with the message of the first error in the validator's order, a field
\* error before any file error.
C12_FailFastFirstError ==
    \A r \in Requests :
        LET errors == SubmissionErrors(req[r].form, env.today, env.tz)
        IN  (req[r].pc = "done" /\ Len(errors) > 0) =>
                /\ req[r].response.status = 400
                /\ req[r].response.error = errors[1].message
                /\ req[r].response.filename = errors[1].filename

\* a request that met a fatal error of the file store: its mkdir failed, a
\* generated path was too long, or a write failed
FileStoreFailed(r) ==
    \/ req[r].mkdirFailed
    \/ req[r].response.error \in {"FILE_PATH_LENGTH", "WRITE_FAILED"}

\* C14: a request that met a fatal error of the file store after its
\* validation passed ends with status 500, never 400 and never 201.
C14_StoreFailureIsServerFault ==
    \A r \in Requests :
        (req[r].pc = "done" /\ req[r].validation = "valid" /\ FileStoreFailed(r)) =>
            req[r].response.status = 500

\* a request that has called writeFile: a write of it succeeded or failed
WriteAttempted(r) == req[r].written # {} \/ req[r].writeFailedAt # 0

\* C15: no request attempts a file write before its own directory creation
\* has succeeded, and a request whose directory creation failed attempts no
\* file write and no database insert.
C15_MkdirFirstAndFatal ==
    \A r \in Requests :
        /\ WriteAttempted(r) => (req[r].mkdirCalls = 1 /\ ~req[r].mkdirFailed)
        /\ req[r].mkdirFailed => (~WriteAttempted(r) /\ req[r].dbCalls = 0)

\* C16: when the write of the k-th file of a request fails, the request ends
\* with no later file written, no metadata for the k-th or a later file, and
\* no database insert attempted; and the metadata of a file is recorded only
\* once that file is completely written.
C16_WriteFailureAborts ==
    \A r \in Requests :
        /\ \A k \in 1..Len(req[r].fileDataArray) :
              Written(req[r].fileDataArray[k].filePath, k, TRUE) \in req[r].written
        /\ req[r].writeFailedAt # 0 =>
              /\ req[r].pc = "done"
              /\ req[r].response.status = 500
              /\ req[r].dbCalls = 0
              /\ Len(req[r].fileDataArray) = req[r].writeFailedAt - 1
              /\ \A w \in req[r].written :
                    /\ w.index <= req[r].writeFailedAt
                    /\ w.index = req[r].writeFailedAt => ~w.complete

\* the second file of a request failed half-written after its first file was
\* stored, while the other request went on to its insert
C16_Witness ==
    \E r1 \in Requests, r2 \in Requests :
        /\ req[r1].writeFailedAt = 2
        /\ Len(req[r1].fileDataArray) = 1
        /\ \E w \in req[r1].written : w.index = 2 /\ ~w.complete
        /\ req[r2].response.status = 201

StoredPaths(files) == {f.path : f \in files}

PcOrder == <<"idle", "validate", "mkdir", "store", "done">>

PcRank(pc) == CHOOSE k \in 1..Len(PcOrder) : PcOrder[k] = pc

\* a request has answered exactly when its handler is done, with 201, 400 or
\* 500, and has made each call at most once
AnsweredWhenDone(r) ==
    /\ req[r].pc = "done" <=> req[r].response.status \in {201, 400, 500}
    /\ req[r].pc # "done" => req[r].response = NoResponse
    /\ req[r].mkdirCalls <= 1
    /\ req[r].dbCalls <= 1

\* a step of a request moves it forward: validate, then store (file by
\* file), then persist, and nothing after its answer
StepsForward(r) ==
    req'[r] # req[r] =>
        /\ req[r].pc # "done"
        /\ \/ PcRank(req'[r].pc) > PcRank(req[r].pc)
           \/ /\ req[r].pc = "store"
              /\ req'[r].pc = "store"
              /\ req'[r].i = req[r].i + 1
        /\ req'[r].validation # req[r].validation => req[r].pc = "validate"
        /\ req'[r].dbCalls # req[r].dbCalls =>
              /\ req[r].pc = "store"
              /\ req[r].i > Len(req[r].validated.files)
              /\ req'[r].pc = "done"

\* C18: every request that has arrived eventually ends in exactly one answer,
\* 201, 400 or 500; its handler validates, stores and persists at most once
\* each and in that order, and does nothing more after its answer.
C18_OneAttemptOneResponse ==
    /\ [](\A r \in Requests : AnsweredWhenDone(r))
    /\ [][\A r \in Requests : StepsForward(r)]_vars
    /\ \A r \in Requests : (req[r].pc # "idle") ~> (req[r].pc = "done")

\* both requests have ended, one created and one refused by the database
\* after its files were stored
C18_Witness ==
    \E r1 \in Requests, r2 \in Requests :
        /\ req[r1].pc = "done" /\ req[r1].response.status = 201
        /\ req[r2].pc = "done" /\ req[r2].response.status = 500
        /\ req[r2].dbCalls = 1
        /\ req[r2].mkdirCalls = 1

\* the success reply of a request matches what is committed under its id
SuccessMatchesCommit(r) ==
    LET response == req[r].response
    IN  /\ \E row \in investors :
               /\ row.id = response.id
               /\ row.firstName = response.firstName
               /\ row.lastName = response.lastName
               /\ row.createdAt = response.createdAt
        /\ Cardinality(FilesOf(response.id)) = Len(req[r].form.files)
        /\ response.filesCount = Len(req[r].form.files)

\* C19: a request is answered with success only when its investors row and
\* all its investor_files rows are in the tables; the answer has status 201
\* only, its data holds exactly id, firstName, lastName, createdAt and
\* filesCount, filesCount is the number of files the request submitted, and no
\* stored path or file content is part of it.
C19_SuccessAfterCommit ==
    \A r \in Requests :
        /\ req[r].response.keys = {"success", "data"} <=> req[r].response.status = 201
        /\ req[r].response.status = 201 =>
              /\ req[r].pc = "done"
              /\ SuccessMatchesCommit(r)
              /\ req[r].response.dataKeys = SuccessDataKeys
              /\ req[r].response.dataKeys \cap {"files", "filePath", "bytes"} = {}

\* two requests answered with success, one with one file and one with two
C19_Witness ==
    \E r1 \in Requests, r2 \in Requests :
        /\ req[r1].response.status = 201 /\ req[r1].response.filesCount = 1
        /\ req[r2].response.status = 201 /\ req[r2].response.filesCount = 2
        /\ req[r1].response.id # req[r2].response.id

\* every message parsePrismaError or the handler's catch spells out itself
GenericMessages ==
    {"A record with this field already exists.", "The requested record was not found.",
     "Cannot complete operation due to related records.", "A database error occurred.",
     "Invalid data provided to the database.", "Failed to connect to the database.",
     "An unknown error occurred.", "Failed to create investor"}

\* C20: whenever a request that passed validation is answered with 500, for
\* an error of storing its files or of the insert, the message of the answer
\* is one of the fixed generic messages.
C20_ServerFaultMessageGeneric ==
    \A r \in Requests :
        (req[r].response.status = 500 /\ req[r].validation = "valid") =>
            req[r].response.message \in GenericMessages

----------------------------------------------------------------------------
(* GET /api/investors *)

\* take: 50
take == 50

MaxCommits == 4      \* creates committed between the start of a run and the GET request

\* orderBy createdAt desc puts x before y; rows created in the same
\* millisecond come in an order the query does not fix
Before(x, y, tie) ==
    \/ x.createdAt > y.createdAt
    \/ /\ x.createdAt = y.createdAt
       /\ IF tie = "asc" THEN x.id < y.id ELSE x.id > y.id

OrderByCreatedAtDesc(rows, tie) ==
    LET pos == [x \in rows |-> 1 + Cardinality({y \in rows : Before(y, x, tie)})]
    IN  [k \in 1..Cardinality(rows) |-> CHOOSE x \in rows : pos[x] = k]

OrderById(rows) ==
    [k \in 1..Cardinality(rows) |-> CHOOSE x \in rows : x.id = k]

TakeFirst(seq, n) == SubSeq(seq, 1, IF Len(seq) < n THEN Len(seq) ELSE n)

\* a query that leaves out the orderBy
findMany_noOrderBy(rows, tie) == TakeFirst(OrderById(rows), take)

\* db.investor.findMany({ orderBy: { createdAt: 'desc' }, take: 50 })
findMany(rows, tie) == TakeFirst(OrderByCreatedAtDesc(rows, tie), take)

LastCommitTime == 2  \* the millisecond of the last create before the GET request

\* the rows a create leaves in the two tables: one investors row stamped with
\* the time of the create, and its file row
CommittedInvestor(id, t) == InvestorRow(id, BaseData, t)

CommittedFiles(id, t) ==
    InvestorFileRows(id, << FileUploadResult(PdfFile,
        DbFilePath(DefaultUploadDir,
                   generateUniqueFilename(PdfFile.name, DateNow(t), <<"i">>))) >>)

\* the rows table investors holds when a run starts: none, or two short of a
\* page of the GET request
EarlierRows == {0, take - 2}

\* a create committed before the GET request
CommitInvestor ==
    /\ get = NoGet
    /\ \E n \in EarlierRows :
          /\ Cardinality(investors) >= n
          /\ Cardinality(investors) < n + MaxCommits
    /\ \E t \in clock..LastCommitTime :
          /\ clock' = t
          /\ investors' = investors \cup {CommittedInvestor(NextInvestorId, t)}
          /\ investor_files' = investor_files \cup CommittedFiles(NextInvestorId, t)
    /\ UNCHANGED <<env, req, dirExists, disk, toolVars, fieldVars, dataVars, uploadVars>>

\* GET: the query and the reply { success, data, count }, or the catch with
\* its 500 reply
GetInvestors ==
    /\ get = NoGet
    /\ \E ok \in BOOLEAN, tie \in {"asc", "desc"} :
          get' = IF ok
                 THEN LET found == findMany(investors, tie)
                      IN  [status |-> 200, data |-> found, count |-> Len(found), message |-> ""]
                 ELSE LET dbError == parsePrismaError(ThrownBy("DB_CONNECTION_ERROR"))
                      IN  [status |-> 500, data |-> <<>>, count |-> 0,
                           message |-> IF dbError.message = "" THEN "Failed to fetch investors"
                                       ELSE dbError.message]
    /\ UNCHANGED <<postVars, seed, tx, fieldVars, dataVars, uploadVars>>

InitRead ==
    /\ call = NoCall
    /\ result = NotCalled
    /\ submission = NoSubmission
    /\ validation = NotValidated
    /\ up = UploadIdle
    /\ updisk = {}
    /\ env = [uploadDir |-> DefaultUploadDir, tz |-> "UTC", today |-> Today]
    /\ req = [r \in Requests |-> IdleRequest]
    /\ dirExists = FALSE
    /\ disk = {}
    /\ clock = 0
    /\ \E n \in EarlierRows :
          /\ investors = {CommittedInvestor(id, 0) : id \in 1..n}
          /\ investor_files = UNION {CommittedFiles(id, 0) : id \in 1..n}
    /\ ToolsIdle

NextRead == CommitInvestor \/ GetInvestors

SpecRead == InitRead /\ [][NextRead]_vars

\* C21: a successful GET returns at most 50 rows of table investors, each
\* once, as many as there are up to 50, newest first; no row left out is newer
\* than a row returned; count is the number of rows returned.
C21_NewestFiftyFirst ==
    get.status = 200 =>
        /\ Len(get.data) <= take
        /\ Len(get.data) = Cardinality(Range(get.data))
        /\ Range(get.data) \subseteq investors
        /\ Cardinality(investors) <= take => Range(get.data) = investors
        /\ Cardinality(investors) > take => Len(get.data) = take
        /\ \A i \in 1..Len(get.data), j \in 1..Len(get.data) :
               i < j => get.data[i].createdAt >= get.data[j].createdAt
        /\ \A o \in investors \ Range(get.data), x \in Range(get.data) :
               o.createdAt <= x.createdAt
        /\ get.count = Len(get.data)

\* more than 50 rows, created at two different times, the cut falling among
\* rows of the same millisecond
C21_Witness ==
    /\ get.status = 200
    /\ get.count = take
    /\ Cardinality(investors) > take
    /\ get.data[1].createdAt > get.data[take].createdAt
    /\ \E o \in investors \ Range(get.data) : o.createdAt = get.data[take].createdAt

\* two requests that submitted the same form and were both answered with success
Resubmitted(r1, r2) ==
    /\ r1 # r2
    /\ req[r1].form = req[r2].form
    /\ req[r1].response.status = 201
    /\ req[r2].response.status = 201

\* C22: two requests with the same valid form, one after the other or
\* overlapping, that both succeed have created two investors rows with
\* different ids, each with its own file rows, as many as the form has files;
\* and no create of any request removes or changes a row that is already
\* there, nor is refused because of one.
C22_NoDeduplication ==
    /\ [](\A r1 \in Requests, r2 \in Requests :
            Resubmitted(r1, r2) =>
                /\ req[r1].response.id # req[r2].response.id
                /\ \E x \in investors, y \in investors :
                       /\ x.id = req[r1].response.id
                       /\ y.id = req[r2].response.id
                       /\ x # y
                /\ FilesOf(req[r1].response.id) \cap FilesOf(req[r2].response.id) = {}
                /\ Cardinality(FilesOf(req[r1].response.id)) = Len(req[r1].form.files)
                /\ Cardinality(FilesOf(req[r2].response.id)) = Len(req[r2].form.files))
    /\ [][/\ investors \subseteq investors'
          /\ investor_files \subseteq investor_files'
          /\ \A r \in Requests :
                req'[r].dbCalls > req[r].dbCalls =>
                    req'[r].response.error \in
                        {"none", "DB_CONNECTION_ERROR",
                         CreateFailure(req[r].validated, req[r].fileDataArray, env.today)}]_vars

\* the same form submitted twice and stored twice
C22_Witness ==
    \E r1 \in Requests, r2 \in Requests :
        /\ Resubmitted(r1, r2)
        /\ Cardinality(investors) = 2
        /\ Cardinality(investor_files) = 2 * Len(req[r1].form.files)

\* C23: the files an uploadFiles call has stored so far all have different
\* stored names, so none of its writes replaced a file of an earlier one.
C23_StoredNamesUnique ==
    /\ \A i \in 1..Len(up.fileDataArray), j \in 1..Len(up.fileDataArray) :
           i # j => up.fileDataArray[i].filePath # up.fileDataArray[j].filePath
    /\ Cardinality(updisk) >= Len(up.fileDataArray)

\* the i-th record of the result describes the i-th file of the batch
RecordOfFile(record, file) ==
    /\ record.fileOriginalName = file.name
    /\ record.fileSize = file.size
    /\ record.mimeType = file.type
    /\ \E t \in 0..MaxClock, suffix \in RandomSuffixes :
           record.filePath = DbFilePath(up.uploadDir,
                                        generateUniqueFilename(file.name, DateNow(t), suffix))
    /\ Len(record.filePath) <= up.maxPathLength

\* C24: when uploadFiles has returned, its result has one record per file of
\* the batch, in the order of the batch, with the file's name, size and type,
\* a stored path uploadDir/generated name no longer than the limit, and the
\* upload directory holds exactly as many files as the batch, one complete
\* file at each record's path.
C24_OneRecordAndFilePerInput ==
    up.pc = "returned" =>
        /\ Len(up.fileDataArray) = Len(up.files)
        /\ \A i \in 1..Len(up.files) : RecordOfFile(up.fileDataArray[i], up.files[i])
        /\ \A i \in 1..Len(up.files) : DiskFile(up.fileDataArray[i].filePath, TRUE) \in updisk
        /\ Cardinality(updisk) = Len(up.files)

----------------------------------------------------------------------------
(* The seed script *)

sampleInvestors ==
    << [firstName |-> <<"J", "o", "h", "n">>, lastName |-> <<"S", "m", "i", "t", "h">>,
       dateOfBirth |-> <<"1", "9", "8", "5", "-", "0", "3", "-", "1", "5">>,
       phoneNumber |-> <<"9", "5", "3", "5", "5", "5", "0", "1", "2", "3">>,
       streetAddress |-> <<"1", "2", "3", " ", "O", "a", "k", " ", "S", "t", "r", "e", "e", "t">>,
       state |-> <<"C", "A">>, zipCode |-> <<"9", "0", "2", "1", "0">>,
       files |-> << [filePath |-> <<"/", "u", "p", "l", "o", "a", "d", "s", "/", "s", "a", "m", "p", "l", "e", "/", "j", "o", "h", "n", "-", "s", "m", "i", "t", "h", "-", "i", "d", ".", "p", "d", "f">>,
                   fileOriginalName |-> <<"d", "r", "i", "v", "e", "r", "s", "-", "l", "i", "c", "e", "n", "s", "e", ".", "p", "d", "f">>, fileSize |-> 245760, mimeType |-> MimePdf],
                  [filePath |-> <<"/", "u", "p", "l", "o", "a", "d", "s", "/", "s", "a", "m", "p", "l", "e", "/", "j", "o", "h", "n", "-", "s", "m", "i", "t", "h", "-", "p", "r", "o", "o", "f", ".", "j", "p", "g">>,
                   fileOriginalName |-> <<"p", "r", "o", "o", "f", "-", "o", "f", "-", "a", "d", "d", "r", "e", "s", "s", ".", "j", "p", "g">>, fileSize |-> 512000, mimeType |-> MimeJpeg] >>],
       [firstName |-> <<"S", "a", "r", "a", "h">>, lastName |-> <<"J", "o", "h", "n", "s", "o", "n">>,
       dateOfBirth |-> <<"1", "9", "9", "0", "-", "0", "7", "-", "2", "2">>,
       phoneNumber |-> <<"2", "1", "2", "5", "5", "5", "0", "4", "5", "6">>,
       streetAddress |-> <<"4", "5", "6", " ", "M", "a", "p", "l", "e", " ", "A", "v", "e", "n", "u", "e">>,
       state |-> <<"N", "Y">>, zipCode |-> <<"1", "0", "0", "0", "1">>,
       files |-> << [filePath |-> <<"/", "u", "p", "l", "o", "a", "d", "s", "/", "s", "a", "m", "p", "l", "e", "/", "s", "a", "r", "a", "h", "-", "j", "o", "h", "n", "s", "o", "n", "-", "i", "d", ".", "p", "d", "f">>,
                   fileOriginalName |-> <<"p", "a", "s", "s", "p", "o", "r", "t", ".", "p", "d", "f">>, fileSize |-> 389120, mimeType |-> MimePdf] >>],
       [firstName |-> <<"M", "i", "c", "h", "a", "e", "l">>, lastName |-> <<"C", "h", "e", "n">>,
       dateOfBirth |-> <<"1", "9", "7", "8", "-", "1", "1", "-", "0", "8">>,
       phoneNumber |-> <<"2", "1", "4", "5", "5", "5", "0", "7", "8", "9">>,
       streetAddress |-> <<"7", "8", "9", " ", "P", "i", "n", "e", " ", "B", "o", "u", "l", "e", "v", "a", "r", "d">>,
       state |-> <<"T", "X">>, zipCode |-> <<"7", "5", "0", "0", "1">>,
       files |-> << [filePath |-> <<"/", "u", "p", "l", "o", "a", "d", "s", "/", "s", "a", "m", "p", "l", "e", "/", "m", "i", "c", "h", "a", "e", "l", "-", "c", "h", "e", "n", "-", "i", "d", ".", "p", "d", "f">>,
                   fileOriginalName |-> <<"s", "t", "a", "t", "e", "-", "i", "d", ".", "p", "d", "f">>, fileSize |-> 301056, mimeType |-> MimePdf] >>],
       [firstName |-> <<"E", "m", "i", "l", "y">>, lastName |-> <<"R", "o", "d", "r", "i", "g", "u", "e", "z">>,
       dateOfBirth |-> <<"1", "9", "9", "5", "-", "0", "5", "-", "3", "0">>,
       phoneNumber |-> <<"3", "0", "5", "5", "5", "5", "0", "3", "2", "1">>,
       streetAddress |-> <<"3", "2", "1", " ", "C", "e", "d", "a", "r", " ", "L", "a", "n", "e">>,
       state |-> <<"F", "L">>, zipCode |-> <<"3", "3", "1", "0", "1">>,
       files |-> << [filePath |-> <<"/", "u", "p", "l", "o", "a", "d", "s", "/", "s", "a", "m", "p", "l", "e", "/", "e", "m", "i", "l", "y", "-", "r", "o", "d", "r", "i", "g", "u", "e", "z", "-", "i", "d", ".", "p", "d", "f">>,
                   fileOriginalName |-> <<"d", "r", "i", "v", "e", "r", "s", "-", "l", "i", "c", "e", "n", "s", "e", ".", "p", "d", "f">>, fileSize |-> 278528, mimeType |-> MimePdf],
                  [filePath |-> <<"/", "u", "p", "l", "o", "a", "d", "s", "/", "s", "a", "m", "p", "l", "e", "/", "e", "m", "i", "l", "y", "-", "r", "o", "d", "r", "i", "g", "u", "e", "z", "-", "u", "t", "i", "l", "i", "t", "y", ".", "p", "n", "g">>,
                   fileOriginalName |-> <<"u", "t", "i", "l", "i", "t", "y", "-", "b", "i", "l", "l", ".", "p", "n", "g">>, fileSize |-> 456789, mimeType |-> MimePng] >>],
       [firstName |-> <<"D", "a", "v", "i", "d">>, lastName |-> <<"W", "i", "l", "l", "i", "a", "m", "s">>,
       dateOfBirth |-> <<"1", "9", "8", "2", "-", "0", "9", "-", "1", "7">>,
       phoneNumber |-> <<"2", "0", "6", "5", "5", "5", "0", "6", "5", "4">>,
       streetAddress |-> <<"6", "5", "4", " ", "B", "i", "r", "c", "h", " ", "C", "o", "u", "r", "t">>,
       state |-> <<"W", "A">>, zipCode |-> <<"9", "8", "1", "0", "1">>,
       files |-> << [filePath |-> <<"/", "u", "p", "l", "o", "a", "d", "s", "/", "s", "a", "m", "p", "l", "e", "/", "d", "a", "v", "i", "d", "-", "w", "i", "l", "l", "i", "a", "m", "s", "-", "i", "d", ".", "p", "d", "f">>,
                   fileOriginalName |-> <<"p", "a", "s", "s", "p", "o", "r", "t", ".", "p", "d", "f">>, fileSize |-> 334848, mimeType |-> MimePdf] >>] >>

\* the process is started (npm run db:seed)
SeedStart(s) ==
    /\ seed[s].pc = "idle"
    /\ seed' = [seed EXCEPT ![s].pc = "count"]
    /\ UNCHANGED <<postVars, get, tx, fieldVars, dataVars, uploadVars>>

\* const existingCount = await prisma.investor.count(); the early return when
\* the table is not empty
SeedCount(s) ==
    /\ seed[s].pc = "count"
    /\ seed' = [seed EXCEPT ![s].pc = IF Cardinality(investors) > 0 THEN "skipped" ELSE "create"]
    /\ UNCHANGED <<postVars, get, tx, fieldVars, dataVars, uploadVars>>

\* one iteration of the loop: await prisma.investor.create of the next sample
\* with its files; a rejection ends the process with exit code 1
SeedCreate(s) ==
    /\ seed[s].pc = "create"
    /\ seed[s].i <= Len(sampleInvestors)
    /\ \E ok \in BOOLEAN :
          LET investor == sampleInvestors[seed[s].i]
              id == NextInvestorId
          IN  IF ok
              THEN /\ investors' = investors \cup {InvestorRow(id, investor, clock)}
                   /\ investor_files' = investor_files \cup InvestorFileRows(id, investor.files)
                   /\ seed' = [seed EXCEPT ![s].i = @ + 1]
              ELSE /\ seed' = [seed EXCEPT ![s].pc = "failed"]
                   /\ UNCHANGED <<investors, investor_files>>
    /\ UNCHANGED <<env, req, dirExists, disk, clock, get, tx, fieldVars, dataVars, uploadVars>>

\* the loop is over: the summary is printed and the process ends
SeedDone(s) ==
    /\ seed[s].pc = "create"
    /\ seed[s].i > Len(sampleInvestors)
    /\ seed' = [seed EXCEPT ![s].pc = "done"]
    /\ UNCHANGED <<postVars, get, tx, fieldVars, dataVars, uploadVars>>

InitSeed == Init /\ env.uploadDir = DefaultUploadDir

NextSeed == \E s \in SeedRuns : SeedStart(s) \/ SeedCount(s) \/ SeedCreate(s) \/ SeedDone(s)

SpecSeed == InitSeed /\ [][NextSeed]_vars

\* the rows of table investors that hold a sample
RowsOfSample(k) ==
    {row \in investors : \E id \in {row.id} :
        row = InvestorRow(id, sampleInvestors[k], row.createdAt)}

SeedRunning(s) == seed[s].pc \in {"count", "create"}

\* the run ended without an error, having seeded or having skipped
SeedEnded(s) == seed[s].pc \in {"done", "skipped"}

\* C25: no sample investor is ever stored twice; and once a run has ended
\* without an error and no run is in progress, whatever other run completed,
\* failed or overlapped before, the table holds exactly the 5 sample
\* investors, each once and with all its sample files.
C25_SeedIdempotent ==
    /\ \A k \in 1..Len(sampleInvestors) : Cardinality(RowsOfSample(k)) <= 1
    /\ ((\E s \in SeedRuns : SeedEnded(s)) /\ (\A s \in SeedRuns : ~SeedRunning(s))) =>
          /\ Cardinality(investors) = Len(sampleInvestors)
          /\ \A k \in 1..Len(sampleInvestors) :
                \E row \in RowsOfSample(k) :
                    Cardinality(FilesOf(row.id)) = Len(sampleInvestors[k].files)

\* u is s with every lower-case letter replaced by its capital
UpperCased(s, u) ==
    /\ Len(u) = Len(s)
    /\ \A i \in 1..Len(s) :
          IF s[i] \in Range(LowerLetters)
          THEN \E k \in 1..Len(LowerLetters) : LowerLetters[k] = s[i] /\ UpperLetters[k] = u[i]
          ELSE u[i] = s[i]

\* d is s without the characters that are not digits
DigitsOnly(s, d) ==
    /\ \A i \in 1..Len(d) : d[i] \in DigitChars
    /\ LET pick == {i \in 1..Len(s) : s[i] \in DigitChars}
       IN  /\ Len(d) = Cardinality(pick)
           /\ \A i \in pick : d[Cardinality({j \in pick : j <= i})] = s[i]

\* C26: a result of validateInvestorData has data exactly when isValid is
\* true, exactly when its error list is empty; the data of a valid result
\* repeats firstName, lastName, dateOfBirth, streetAddress, zipCode and files
\* of the input as they came, untrimmed, its phoneNumber is the input's digits
\* and its state is the input in capitals.
C26_NormalizedDataFrame ==
    (validation.called /\ ~validation.res.threw) =>
        LET res == validation.res
            input == submission.data
        IN  /\ res.hasData <=> res.isValid
            /\ res.isValid <=> res.errors = <<>>
            /\ res.isValid =>
                  /\ res.data.firstName = input.firstName
                  /\ res.data.lastName = input.lastName
                  /\ res.data.dateOfBirth = input.dateOfBirth
                  /\ res.data.streetAddress = input.streetAddress
                  /\ res.data.zipCode = input.zipCode
                  /\ res.data.files = input.files
                  /\ DigitsOnly(input.phoneNumber, res.data.phoneNumber)
                  /\ UpperCased(input.state, res.data.state)

\* a valid submission whose first name comes back with its blanks
C26_Witness ==
    /\ validation.called
    /\ validation.res.isValid
    /\ validation.res.hasData
    /\ validation.res.data.firstName # trim(validation.res.data.firstName)
    /\ validation.res.data.firstName = submission.data.firstName

FlatNameChars ==
    Range(LowerLetters) \cup Range(UpperLetters) \cup DigitChars \cup {".", "_", "-"}

\* name is timestamp-suffix-sanitized for an original name: the last part as
\* long as the original, made of [A-Za-z0-9._-] only and left alone by
\* sanitizing it again
FlatStoredName(name, original) ==
    \E t \in 0..MaxClock, suffix \in RandomSuffixes :
        LET head == DateNow(t) \o <<"-">> \o suffix \o <<"-">>
            sanitized == SubSeq(name, Len(head) + 1, Len(name))
        IN  /\ Len(name) = Len(head) + Len(original)
            /\ SubSeq(name, 1, Len(head)) = head
            /\ Range(sanitized) \subseteq FlatNameChars
            /\ sanitizeFilename(sanitized) = sanitized
            /\ \A i \in 1..Len(original) :
                   original[i] \in FlatNameChars \ {"_"} => sanitized[i] = original[i]

\* path is uploadDir/name with no separator inside name
DirectlyInside(path, uploadDir) ==
    LET prefix == uploadDir \o <<"/">>
        name == SubSeq(path, Len(prefix) + 1, Len(path))
    IN  /\ Len(path) > Len(prefix)
        /\ SubSeq(path, 1, Len(prefix)) = prefix
        /\ Range(name) \cap {"/", "\\"} = {}

\* C27: every stored name uploadFiles has generated is
\* timestamp-suffix-sanitized for the file's original name, whatever that name
\* contains, and every file it has put on disk lies directly inside the upload
\* directory.
C27_FlatLayout ==
    /\ \A i \in 1..Len(up.fileDataArray) :
          /\ DirectlyInside(up.fileDataArray[i].filePath, up.uploadDir)
          /\ FlatStoredName(SubSeq(up.fileDataArray[i].filePath, Len(up.uploadDir) + 2,
                                   Len(up.fileDataArray[i].filePath)),
                            up.files[i].name)
    /\ \A f \in updisk : DirectlyInside(f.path, up.uploadDir)

\* the names with separators, dots and control characters have been stored
C27_Witness ==
    /\ up.pc = "returned"
    /\ Len(up.fileDataArray) = 2
    /\ up.fileDataArray[1].fileOriginalName = TraversalFile.name
    /\ up.fileDataArray[2].fileOriginalName = ControlCharsFile.name
    /\ Cardinality(updisk) = 2

\* C28: a request whose dateOfBirth is a non-empty string that new Date
\* cannot parse is found invalid with an error about its dateOfBirth and
\* answered 400, and the insert is never called for it.
C28_UnparsableDateRejected ==
    \A r \in Requests :
        (/\ req[r].validation # "none"
         /\ ~IsFalsy(req[r].form.dateOfBirth)
         /\ ~NewDate(req[r].form.dateOfBirth).valid) =>
            /\ req[r].validation = "invalid"
            /\ req[r].response.status = 400
            /\ req[r].response.error \in {"DATE_OF_BIRTH_REQUIRED", "AGE_RANGE"}
            /\ req[r].dbCalls = 0

----------------------------------------------------------------------------
(* db-utils.ts: withErrorHandling and executeTransaction *)

MaxTxWrites == 2     \* creates a callback makes before it settles

Undefined == "undefined"

NoThrown == ThrownError("none", "", "")

\* what the callback does in the end: resolve with a value, reject, or throw
\* before its first await
Callback(kind, value, error) == [kind |-> kind, value |-> value, error |-> error]

TxErrors ==
    {ThrownBy(f) : f \in {"DB_CONNECTION_ERROR", "DB_VALIDATION_ERROR", "DB_VALUE_TOO_LONG",
                          "DB_CHECK_VIOLATION", "TypeError"}}
    \cup {ThrownError("PrismaClientKnownRequestError", code, "Request failed") :
             code \in {"P2002", "P2025", "P2003"}}
    \cup {ThrownError("NotAnError", "", "a thrown string")}

Callbacks ==
    {Callback("resolves", v, NoThrown) : v \in {"created", Undefined}}
    \cup {Callback(k, Undefined, e) : k \in {"rejects", "throws"}, e \in TxErrors}

\* a wrapper that passes on what it does not recognise
WrapperResult_rethrowUnknown(settled) ==
    IF settled.kind = "resolves"
    THEN [NoWrapperResult EXCEPT !.hasData = settled.value # Undefined, !.data = settled.value]
    ELSE IF settled.error.class \in PrismaErrorClasses
    THEN [NoWrapperResult EXCEPT !.hasError = TRUE, !.error = parsePrismaError(settled.error)]
    ELSE [NoWrapperResult EXCEPT !.threw = TRUE]

\* try { const data = await ...; return { data } }
\* catch (error) { return { error: parsePrismaError(error) } }
WrapperResult(settled) ==
    IF settled.kind = "resolves"
    THEN [NoWrapperResult EXCEPT !.hasData = settled.value # Undefined, !.data = settled.value]
    ELSE [NoWrapperResult EXCEPT !.hasError = TRUE, !.error = parsePrismaError(settled.error)]

\* withErrorHandling(operation) or executeTransaction(callback) is called
TxCall ==
    /\ tx.pc = "idle"
    /\ \E fn \in {"withErrorHandling", "executeTransaction"}, cb \in Callbacks :
          tx' = [tx EXCEPT !.pc = "callback", !.fn = fn, !.callback = cb]
    /\ UNCHANGED <<postVars, get, seed, fieldVars, dataVars, uploadVars>>

\* the callback creates a row: inside the transaction under executeTransaction,
\* committed at once under withErrorHandling
TxWrite ==
    /\ tx.pc = "callback"
    /\ tx.callback.kind # "throws"
    /\ tx.writes < MaxTxWrites
    /\ LET row == InvestorRow(NextInvestorId + Cardinality(tx.pending), BaseData, clock)
       IN  IF tx.fn = "executeTransaction"
           THEN /\ tx' = [tx EXCEPT !.writes = @ + 1, !.pending = @ \cup {row}]
                /\ UNCHANGED investors
           ELSE /\ tx' = [tx EXCEPT !.writes = @ + 1]
                /\ investors' = investors \cup {row}
    /\ UNCHANGED <<env, req, dirExists, disk, clock, investor_files, get, seed,
                   fieldVars, dataVars, uploadVars>>

\* the callback settles: withErrorHandling returns; $transaction rolls back
\* when the callback failed and goes on to commit when it resolved
TxSettle ==
    /\ tx.pc = "callback"
    /\ tx' = IF tx.fn = "executeTransaction" /\ tx.callback.kind = "resolves"
             THEN [tx EXCEPT !.pc = "commit"]
             ELSE [tx EXCEPT !.pc = "returned", !.pending = {},
                             !.result = WrapperResult(tx.callback)]
    /\ UNCHANGED <<postVars, get, seed, fieldVars, dataVars, uploadVars>>

\* COMMIT: the rows of the transaction become visible, or the commit fails
\* and they are dropped
TxCommit ==
    /\ tx.pc = "commit"
    /\ \E ok \in BOOLEAN :
          IF ok
          THEN /\ investors' = investors \cup tx.pending
               /\ tx' = [tx EXCEPT !.pc = "returned", !.pending = {},
                                   !.result = WrapperResult(tx.callback)]
          ELSE /\ UNCHANGED investors
               /\ tx' = [tx EXCEPT !.pc = "returned", !.pending = {},
                                   !.result = WrapperResult(
                                       Callback("rejects", Undefined,
                                                ThrownBy("DB_CONNECTION_ERROR")))]
    /\ UNCHANGED <<env, req, dirExists, disk, clock, investor_files, get, seed,
                   fieldVars, dataVars, uploadVars>>

InitTx == Init /\ env.uploadDir = DefaultUploadDir

NextTx == TxCall \/ TxWrite \/ TxSettle \/ TxCommit

SpecTx == InitTx /\ [][NextTx]_vars

\* C29: a wrapper call never throws; what it returns never has both data and
\* error; it has data only when the callback resolved (and, under
\* executeTransaction, every row the callback created is committed), error only
\* as the DatabaseError parsePrismaError makes of the failure (and, under
\* executeTransaction, with no row of the callback left); a callback that
\* fails gives error, one that resolves to a defined value gives data or error.
C29_WrappersNeverThrow ==
    /\ ~tx.result.threw
    /\ tx.pc = "returned" =>
          LET res == tx.result
              cb == tx.callback
          IN  /\ ~(res.hasData /\ res.hasError)
              /\ res.hasData =>
                    /\ cb.kind = "resolves"
                    /\ res.data = cb.value
                    /\ Cardinality(investors) = tx.writes
              /\ res.hasError =>
                    /\ res.error.message # ""
                    /\ cb.kind # "resolves" => res.error = parsePrismaError(cb.error)
                    /\ tx.fn = "executeTransaction" => investors = {}
              /\ cb.kind # "resolves" => res.hasError
              /\ (cb.kind = "resolves" /\ cb.value # Undefined) => (res.hasData \/ res.hasError)
              /\ tx.pending = {}

\* a transaction whose callback created two rows and then rejected with an
\* error that is no Prisma error: rolled back and reported
C29_Witness ==
    /\ tx.pc = "returned"
    /\ tx.fn = "executeTransaction"
    /\ tx.writes = 2
    /\ tx.callback.kind = "rejects"
    /\ tx.callback.error.class = "TypeError"
    /\ tx.result.hasError
    /\ investors = {}

----------------------------------------------------------------------------
(* The form's schema (investorSchema) *)

\* z.string(): the value is a string
ZString(s) == s # Null

\* the positions of s a pattern can have reached: after an optional
\* character of a class, and after a required one
RegexOptional(s, ends, class) ==
    ends \cup {p + 1 : p \in {q \in ends : q < Len(s) /\ s[q + 1] \in class}}

RegexOne(s, ends, class) ==
    {p + 1 : p \in {q \in ends : q < Len(s) /\ s[q + 1] \in class}}

\* [-.\s]
PhoneSeparators == {"-", ".", " ", "\t", "\n"}

\* [2-9]
Digits2To9 == DigitChars \ {"0", "1"}

\* PHONE_VALIDATION.REGEX =
\* /^(\+?1[-.\s]?)?\(?([2-9][0-9]{2})\)?[-.\s]?([2-9][0-9]{2})[-.\s]?([0-9]{4})$/
PhoneRegexTest(s) ==
    LET country == RegexOptional(s, RegexOne(s, RegexOptional(s, {0}, {"+"}), {"1"}),
                                 PhoneSeparators)
        open == RegexOptional(s, {0} \cup country, {"("})
        area == RegexOne(s, RegexOne(s, RegexOne(s, open, Digits2To9), DigitChars), DigitChars)
        close == RegexOptional(s, RegexOptional(s, area, {")"}), PhoneSeparators)
        exchange == RegexOne(s, RegexOne(s, RegexOne(s, close, Digits2To9), DigitChars),
                             DigitChars)
        sep == RegexOptional(s, exchange, PhoneSeparators)
        line == RegexOne(s, RegexOne(s, RegexOne(s, RegexOne(s, sep, DigitChars), DigitChars),
                                     DigitChars), DigitChars)
    IN  Len(s) \in line

firstNameSchema(s) == ZString(s) /\ Len(s) >= FIRST_NAME_MIN /\ Len(s) <= FIRST_NAME_MAX

lastNameSchema(s) == ZString(s) /\ Len(s) >= LAST_NAME_MIN /\ Len(s) <= LAST_NAME_MAX

streetAddressSchema(s) ==
    ZString(s) /\ Len(s) >= STREET_ADDRESS_MIN /\ Len(s) <= STREET_ADDRESS_MAX

dateOfBirthSchema(s, now, tz) ==
    /\ ZString(s)
    /\ Len(s) >= 1
    /\ LET age == calculateAge(s, now, tz)
       IN  ~age.nan /\ age.value >= AGE_MIN /\ age.value <= AGE_MAX

phoneNumberSchema(s) == ZString(s) /\ Len(s) >= 1 /\ PhoneRegexTest(s)

zipCodeSchema(s) == ZString(s) /\ Len(s) >= 1 /\ ZipRegexTest(s) /\ isValidZipRange(s)

\* the schema of the field a validator checks accepts the argument of the call
SchemaAccepts(c) ==
    CASE c.fn = "validateFirstName" -> firstNameSchema(c.arg)
      [] c.fn = "validateLastName" -> lastNameSchema(c.arg)
      [] c.fn = "validateStreetAddress" -> streetAddressSchema(c.arg)
      [] c.fn = "validateDateOfBirth" -> dateOfBirthSchema(c.arg, c.now, c.tz)
      [] c.fn = "validatePhoneNumber" -> phoneNumberSchema(c.arg)
      [] c.fn = "validateZipCode" -> zipCodeSchema(c.arg)
      [] OTHER -> FALSE

\* C30: whenever the form's schema accepts a name, street address, date of
\* birth, phone number or ZIP code, the server's validator of that field
\* returns no error for it.
C30_SchemaNoMorePermissive ==
    (result.called /\ SchemaAccepts(call)) => result.errors = <<>>

====
